---- MODULE Spec2Model ----
(***************************************************************************)
(* Model of the prediction-market arbitrage engine                         *)
(* (rust_engine/src/engine.rs, cross_matcher.rs, main.rs).                 *)
(*                                                                         *)
(* Numbers.  The program computes in f64.  The model computes the same     *)
(* expressions exactly: a price or an amount of money is an integer number *)
(* of ticks, Dollar ticks to 1.0; a fee rate is an integer per cent; a     *)
(* quotient (ROI, position size) is a fraction [n, d] in lowest terms.     *)
(* Every                                                                   *)
(* price the model draws is a multiple of 100 ticks, so that a fee         *)
(* (price * rate) is a whole number of ticks.                              *)
(*                                                                         *)
(* Text.  A text is a TLA+ string; to_lowercase, split_whitespace and      *)
(* contains are computed on its characters.  An Option<T> is a sequence of *)
(* length 0 (None) or 1 (Some).                                            *)
(***************************************************************************)
EXTENDS Integers, Sequences, FiniteSets, Bags, TLC

VARIABLES
    pc,             \* position of main's scan cycle
    config,         \* the Config loaded this cycle
    engine,         \* the ArbitrageEngine built this cycle
    markets,        \* all_markets: Polymarket ++ Kalshi ++ Manifold
    opportunities,  \* the Vec<Opportunity> analyze_markets is building
    cross_matches,  \* the Vec<CrossMatch> of match_all
    sent_ids,       \* the ids already alerted (the dedup cache)
    locals,         \* the locals of a function run on its own, or of the workers of a scan
    telegram        \* the calls of the notifier

vars == <<pc, config, engine, markets, opportunities, cross_matches, sent_ids, locals, telegram>>

-----------------------------------------------------------------------------
(* Bounds of the model *)

\* the most markets one scan cycle fetches, all venues together
MaxMarkets == 2

\* the same, in the cycles whose markets go to the matcher
MaxMatchMarkets == 3

\* the same, in the cycles whose opportunities are alerted
MaxAlertMarkets == 2

\* the most markets handed to one run of match_all
MaxGateMarkets == 2

\* the same, in the cycles whose scans are followed worker by worker
MaxParMarkets == 3

\* the most workers a parallel scan is split over
MaxWorkers == 2

\* the most pages a venue is asked for in one fetch, and the most answers a
\* server lists
MaxPages == 2

-----------------------------------------------------------------------------
(* Numbers *)

\* 1.0, in ticks
Dollar == 100000

\* 0.01, the least reliable price
MinPrice == 1000

\* 0.02, the margin of a dependency violation
DepMargin == 2000

RECURSIVE Gcd(_, _)
Gcd(a, b) == IF b = 0 THEN a ELSE Gcd(b, a % b)

Abs(x) == IF x < 0 THEN 0 - x ELSE x

\* the fraction n / d, d > 0, in lowest terms
Rat(n, d) ==
    LET g == Gcd(Abs(n), d)
    IN  [n |-> n \div g, d |-> d \div g]

\* a >= b, for fractions with positive denominators
RatGe(a, b) == a.n * b.d >= b.n * a.d

RatMulInt(a, k) == Rat(a.n * k, a.d)

\* x * rate, rate in per cent
MulRate(x, rate) == (x * rate) \div 100

IsSome(o) == Len(o) = 1

None == <<>>

Some(x) == <<x>>

unwrap_or_default(o) == IF IsSome(o) THEN o[1] ELSE ""

\* Vec::get(i).copied().unwrap_or(0.0), i counted from 0
price_or_zero(prices, i) == IF i + 1 <= Len(prices) THEN prices[i + 1] ELSE 0

RECURSIVE Concat(_)
Concat(ss) == IF ss = <<>> THEN <<>> ELSE Head(ss) \o Concat(Tail(ss))

RECURSIVE SumSeq(_)
SumSeq(s) == IF s = <<>> THEN 0 ELSE Head(s) + SumSeq(Tail(s))

-----------------------------------------------------------------------------
(* Strings *)

UpperCase == "ABCDEFGHIJKLMNOPQRSTUVWXYZ"

LowerCase == "abcdefghijklmnopqrstuvwxyz"

CharAt(s, i) == SubSeq(s, i, i)

LowerChar(c) ==
    IF \E i \in 1..Len(UpperCase) : CharAt(UpperCase, i) = c
    THEN CharAt(LowerCase, CHOOSE i \in 1..Len(UpperCase) : CharAt(UpperCase, i) = c)
    ELSE c

\* every character lower-cased, one half of the string after the other
RECURSIVE to_lowercase(_)
to_lowercase(s) ==
    IF s = "" THEN ""
    ELSE IF Len(s) = 1 THEN LowerChar(s)
    ELSE to_lowercase(SubSeq(s, 1, Len(s) \div 2))
            \o to_lowercase(SubSeq(s, Len(s) \div 2 + 1, Len(s)))

\* str::contains(pattern)
contains(text, pattern) ==
    \E i \in 1..(Len(text) - Len(pattern) + 1) :
        SubSeq(text, i, i + Len(pattern) - 1) = pattern

\* the end of the word that starts at position i
RECURSIVE WordEnd(_, _)
WordEnd(s, i) ==
    IF i > Len(s) \/ CharAt(s, i) = " " THEN i - 1 ELSE WordEnd(s, i + 1)

RECURSIVE split_whitespace(_)
split_whitespace(s) ==
    IF s = "" THEN <<>>
    ELSE IF CharAt(s, 1) = " " THEN split_whitespace(SubSeq(s, 2, Len(s)))
    ELSE LET e == WordEnd(s, 1)
         IN  <<SubSeq(s, 1, e)>> \o split_whitespace(SubSeq(s, e + 1, Len(s)))

-----------------------------------------------------------------------------
(* Markets *)

\* close_date is an Option<String>: Date(t) is a string that parses to the
\* instant t, counted in half days; NoDate is a string that does not parse
Date(t) == [parses |-> TRUE, t |-> t]

NoDate == [parses |-> FALSE, t |-> 0]

MarketAt(id, platform, question, title, subtitle, prices, close_date) ==
    [id |-> id, platform |-> platform, question |-> question, title |-> title,
     subtitle |-> subtitle, outcome_prices |-> prices, close_date |-> close_date]

Market(id, platform, question, title, subtitle, prices) ==
    MarketAt(id, platform, question, title, subtitle, prices, None)

\* A Polymarket market: a question, any number of outcome prices
Poly(id, question, prices) == Market(id, "Polymarket", Some(question), None, None, prices)

\* A Kalshi market: a title, perhaps a subtitle, a YES and a NO price
Kalshi(id, title, subtitle, yes, no) == Market(id, "Kalshi", None, Some(title), subtitle, <<yes, no>>)

\* A Manifold market: a question and a probability
Manifold(id, question, prob) == Market(id, "Manifold", Some(question), None, None, <<prob, Dollar - prob>>)

QTen == "Trump win by 10+"
QFive == "Trump win by 5+"
QOhio == "Trump win Ohio primary"
QStop == "Will it be"
QLong == "Trump win by 10+ trump win trump win trump win trump win trump win trump win trump win"
QSenate == "Who takes the Senate"
QRain == "Rain tomorrow"

PolyPool == <<
    Poly("p01", QTen, <<40000, 55000>>),
    Poly("p02", QTen, <<70000, 28000>>),
    Poly("p03", QTen, <<55000, 40000>>),
    Poly("p04", QTen, <<500, 60000>>),
    Poly("p05", QTen, <<>>),
    Poly("p06", QTen, <<40000>>),
    Poly("p07", QOhio, <<40000, 50000>>),
    Poly("p08", QStop, <<40000, 50000>>),
    Poly("p09", QLong, <<40000, 50000>>),
    Poly("p10", QSenate, <<30000, 30000, 30000>>),
    Poly("p11", QSenate, <<33000, 33000, 30000>>),
    Poly("p12", QSenate, <<500, 30000, 30000>>),
    Poly("p13", QSenate, <<40000, 40000, 40000>>) >>

KalshiPool == <<
    Kalshi("k01", QFive, None, 40000, 55000),
    Kalshi("k02", QFive, None, 60000, 40000),
    Kalshi("k03", "Trump win", Some("by 10+"), 70000, 28000),
    Kalshi("k04", QFive, None, 50000, 40000),
    Kalshi("k05", QFive, None, 40000, 500),
    Kalshi("k06", QFive, None, 0, 0) >>

ManifoldPool == <<
    Manifold("m01", QTen, 70000),
    Manifold("m02", QFive, 60000) >>

\* analyze_markets is public: a market of a venue the engine has no fee for
OtherPool == <<
    Market("o01", "PredictIt", Some(QRain), None, None, <<40000, 50000>>) >>

Pool == PolyPool \o KalshiPool \o ManifoldPool \o OtherPool

\* The markets of the cycles that go to the matcher.  Their prices leave the
\* engine nothing to report.
QElection == "Will Trump win the 2024 presidential election?"
QElectionShort == "Trump win election"
QElectionLater == "Will Trump win the election in 2026?"
TElection == "Trump wins the presidential election"

\* questions of more than 100 bytes with a two-byte character: byte 100 is the
\* second byte of the character in the first and a boundary in the second
QCutInside == "Will Trump win the 2024 presidential election and take the oath of office in a Washington local café?"
QCutBetween == "Will Trump win the 2024 presidential election after a café visit and take the oath of office in May?"

MatchPool == <<
    MarketAt("pm1", "Polymarket", Some(QElection), None, None, <<50000, 50000>>, Some(Date(0))),
    MarketAt("km1", "Kalshi", None, Some(TElection), Some("2024"), <<50000, 50000>>, Some(Date(100))),
    MarketAt("km1", "Kalshi", None, Some(TElection), Some("2024"), <<52000, 48000>>, Some(Date(100))),
    MarketAt("mm1", "Manifold", Some(QElectionShort), None, None, <<50000, 50000>>, None),
    MarketAt("mm2", "Manifold", Some(QElectionLater), None, None, <<50000, 50000>>, Some(NoDate)),
    MarketAt("mm3", "Manifold", Some(QElectionShort), None, None, <<50000, 50000>>, Some(Date(400))),
    MarketAt("pm1", "Manifold", Some(QElectionShort), None, None, <<50000, 50000>>, None) >>

MatchSnapshots ==
    { [i \in 1..Len(ix) |-> MatchPool[ix[i]]] :
        ix \in { s \in UNION { [1..n -> 1..Len(MatchPool)] : n \in 0..MaxMatchMarkets } :
                    \A i \in 1..(Len(s) - 1) : s[i] < s[i + 1] } }

\* The markets handed to single runs of match_all: those above and markets
\* that differ in category, entities, teams, years and close dates.
GatePool == MatchPool \o <<
    MarketAt("km2", "Kalshi", None, Some(TElection), Some("2024"), <<50000, 50000>>, Some(Date(181))),
    MarketAt("km3", "Kalshi", None, Some(TElection), Some("2024"), <<50000, 50000>>, Some(Date(182))),
    MarketAt("km4", "Kalshi", None, Some(QElectionShort), None, <<50000, 50000>>, Some(NoDate)),
    MarketAt("pm3", "Polymarket", Some("Trump election odds"), None, None, <<50000, 50000>>, None),
    MarketAt("pm4", "Polymarket", Some("Biden president approval"), None, None, <<50000, 50000>>, None),
    MarketAt("sp1", "Polymarket", Some("Will the Lakers win the NBA finals?"), None, None, <<50000, 50000>>, None),
    MarketAt("sp2", "Polymarket", Some("Lakers vs Celtics NBA finals"), None, None, <<50000, 50000>>, None),
    MarketAt("sk1", "Kalshi", None, Some("Lakers NBA finals champion"), None, <<50000, 50000>>, None),
    MarketAt("sk2", "Kalshi", None, Some("Celtics win NBA finals"), None, <<50000, 50000>>, None),
    MarketAt("sk3", "Kalshi", None, Some("Celtics vs Lakers NBA finals"), None, <<50000, 50000>>, None),
    MarketAt("sm1", "Manifold", Some("NBA finals basketball winner"), None, None, <<50000, 50000>>, None),
    MarketAt("pc1", "Polymarket", Some("Bitcoin price above 100k"), None, None, <<50000, 50000>>, None),
    MarketAt("kc1", "Kalshi", None, Some("Bitcoin price forecast"), None, <<50000, 50000>>, None),
    MarketAt("px1", "Polymarket", Some("Trump bitcoin election crypto 2024"), None, None, <<50000, 50000>>, None),
    MarketAt("kx1", "Kalshi", None, Some("Bitcoin crypto Trump 2024"), None, <<50000, 50000>>, None),
    MarketAt("pl1", "Polymarket", Some(QCutInside), None, None, <<50000, 50000>>, None),
    MarketAt("pl2", "Polymarket", Some(QCutBetween), None, None, <<50000, 50000>>, None) >>

GateSnapshots ==
    { [i \in 1..Len(ix) |-> GatePool[ix[i]]] :
        ix \in { s \in UNION { [1..n -> 1..Len(GatePool)] : n \in 0..MaxGateMarkets } :
                    \A i \in 1..(Len(s) - 1) : s[i] < s[i + 1] } }

\* the market lists a fetch can deliver: markets of the pool, in venue order
Snapshots ==
    { [i \in 1..Len(ix) |-> Pool[ix[i]]] :
        ix \in { s \in UNION { [1..n -> 1..Len(Pool)] : n \in 0..MaxMarkets } :
                    \A i \in 1..(Len(s) - 1) : s[i] < s[i + 1] } }

\* The markets of the cycles whose opportunities are alerted: a market keeps
\* its id from one cycle to the next while its prices move.
AlertPool == <<
    Poly("p01", QTen, <<40000, 55000>>),
    Poly("p01", QTen, <<70000, 28000>>),
    Kalshi("k02", QFive, None, 60000, 40000),
    Kalshi("k03", "Trump win", Some("by 10+"), 70000, 28000),
    Kalshi("k03", "Trump win", Some("by 10+"), 80000, 18000) >>

\* one fetch lists a market once
AlertSnapshots ==
    { [i \in 1..Len(ix) |-> AlertPool[ix[i]]] :
        ix \in { s \in UNION { [1..n -> 1..Len(AlertPool)] : n \in 0..MaxAlertMarkets } :
                    /\ \A i \in 1..(Len(s) - 1) : s[i] < s[i + 1]
                    /\ \A i, j \in 1..Len(s) :
                        i # j => AlertPool[s[i]].id # AlertPool[s[j]].id } }

-----------------------------------------------------------------------------
(* Config *)

\* min_profit_threshold of config.json, in ticks
ProfitChoices == {3000, 5000, 8000}

\* min_roi_percent of config.json
RoiChoices == {1, 20}

\* TOTAL_CAPITAL, in dollars
Capital == 1000

Configs == [min_roi_percent : RoiChoices, min_profit_threshold : ProfitChoices]

-----------------------------------------------------------------------------
(* engine.rs *)

POLYMARKET_FEE == 2
KALSHI_FEE == 1
MANIFOLD_FEE == 2
DEFAULT_FEE == 2
MIN_PROFIT_THRESHOLD == 5000

IMPLICATION_PATTERNS == <<
    <<"trump win", "republican win">>,
    <<"trump wins", "republicans win">>,
    <<"biden win", "democrat win">>,
    <<"harris win", "democrat win">>,
    <<"landslide", "win">>,
    <<"win by 5+", "win">>,
    <<"win by 10+", "win by 5+">>,
    <<"bitcoin 200k", "bitcoin 150k">>,
    <<"bitcoin 150k", "bitcoin 100k">>,
    <<"bitcoin 100k", "bitcoin 75k">>,
    <<"ethereum 10k", "ethereum 5k">>,
    <<"btc 200k", "btc 100k">>,
    <<"btc 100k", "btc 75k">>,
    <<"eth 10k", "eth 5k">>,
    <<"solana 500", "solana 300">>,
    <<"solana 300", "solana 200">>,
    <<"recession 2025", "gdp negative">>,
    <<"fed cut", "rate decrease">>,
    <<"fed cuts 3", "fed cuts 2">>,
    <<"fed cuts 2", "fed cut">>,
    <<"inflation below 2", "inflation below 3">>,
    <<"unemployment above 5", "unemployment above 4">>,
    <<"sweep", "win series">>,
    <<"win in 4", "win series">>,
    <<"win in 5", "win series">>,
    <<"win finals", "reach finals">>,
    <<"win championship", "reach playoffs">>,
    <<"super bowl win", "reach super bowl">>,
    <<"win mvp", "reach playoffs">>,
    <<"agi by 2026", "agi by 2030">>,
    <<"agi by 2027", "agi by 2030">>,
    <<"tesla 500", "tesla 400">>,
    <<"tesla 400", "tesla 300">>,
    <<"nvidia 200", "nvidia 150">>,
    <<"apple 250", "apple 200">>,
    <<"before march", "in 2025">>,
    <<"before june", "in 2025">>,
    <<"by q1", "in 2025">>,
    <<"by q2", "by end of year">> >>

subjects == <<
    "trump", "biden", "harris", "republican", "democrat", "bitcoin",
    "btc", "ethereum", "eth", "solana", "sol", "xrp",
    "doge", "lakers", "celtics", "warriors", "chiefs", "eagles",
    "yankees", "lebron", "curry", "mahomes", "messi", "ronaldo",
    "tesla", "nvidia", "apple", "google", "openai", "agi",
    "fed", "inflation", "recession", "gdp", "unemployment" >>

subset_indicators == <<
    <<"by 5+", "win">>,
    <<"by 10+", "win">>,
    <<"landslide", "win">>,
    <<"sweep", "win">>,
    <<"before march", "in 2025">>,
    <<"by june", "in 2025">>,
    <<"200k", "100k">>,
    <<"150k", "100k">>,
    <<"10k", "5k">>,
    <<"500", "300">>,
    <<"win in 4", "win series">>,
    <<"win in 5", "win series">>,
    <<"win finals", "reach finals">>,
    <<"cuts 3", "cut">>,
    <<"cuts 4", "cuts 2">> >>

stop_words == {"the", "a", "an", "is", "will", "be", "to", "of", "in", "for", "on", "at", "by"}

\* 0.4, the least similarity of a cross-venue pair (exclusive)
SIMILARITY_THRESHOLD == Rat(4, 10)

\* the largest difference in text length of a cross-venue pair
MAX_LEN_DIFF == 60

Range(s) == {s[i] : i \in 1..Len(s)}

\* the members of a set of integers, in ascending order
RECURSIVE Ascending(_)
Ascending(S) ==
    IF S = {} THEN <<>>
    ELSE LET m == CHOOSE x \in S : \A y \in S : x <= y
         IN  <<m>> \o Ascending(S \ {m})

get_market_text(market) ==
    unwrap_or_default(market.question) \o " " \o unwrap_or_default(market.title)
        \o " " \o unwrap_or_default(market.subtitle)

\* the words of a lower-cased text that are no stop words and longer than 2
word_set(text) ==
    {w \in Range(split_whitespace(text)) : w \notin stop_words /\ Len(w) > 2}

\* the texts of the pool, each lower-cased and split once
PoolTexts ==
    {get_market_text(Pool[i]) : i \in 1..Len(Pool)}
        \cup {get_market_text(MatchPool[i]) : i \in 1..Len(MatchPool)}

LowerTextOf == [t \in PoolTexts |-> to_lowercase(t)]

WordsOf == [t \in PoolTexts |-> word_set(LowerTextOf[t])]

lower_text(market) == LowerTextOf[get_market_text(market)]

words(market) == WordsOf[get_market_text(market)]

calculate_similarity_sets(words_a, words_b) ==
    LET intersection == words_a \cap words_b
        union_size == Cardinality(words_a) + Cardinality(words_b) - Cardinality(intersection)
    IN  IF union_size = 0 THEN Rat(0, 1)
        ELSE Rat(Cardinality(intersection), union_size)

Max(a, b) == IF a >= b THEN a ELSE b

\* an engine whose profit threshold is the configured one, without the floor
engine_without_floor(min_roi, min_profit_threshold, total_capital) ==
    [min_roi |-> min_roi,
     min_profit_threshold |-> min_profit_threshold,
     total_capital |-> total_capital]

ArbitrageEngine_new(min_roi, min_profit_threshold, total_capital) ==
    [min_roi |-> min_roi,
     min_profit_threshold |-> Max(min_profit_threshold, MIN_PROFIT_THRESHOLD),
     total_capital |-> total_capital]

\* one fee for every venue
flat_platform_fee(platform) == DEFAULT_FEE

get_platform_fee(platform) ==
    LET p == to_lowercase(platform)
    IN  CASE p = "polymarket" -> POLYMARKET_FEE
          [] p = "kalshi" -> KALSHI_FEE
          [] p = "manifold" -> MANIFOLD_FEE
          [] OTHER -> DEFAULT_FEE

\* the sizer without the cap at a tenth of the capital
position_size_uncapped(e, net_profit, cost) ==
    LET kelly == Rat(net_profit * 95 - 5 * cost, 100 * cost)
        conservative == Rat(kelly.n * 25, kelly.d * 100)
    IN  IF conservative.n > 0
        THEN RatMulInt(conservative, e.total_capital)
        ELSE Rat(0, 1)

\* Kelly fraction, a quarter of it, capped at a tenth of the capital
calculate_position_size(e, net_profit, cost) ==
    LET kelly == Rat(net_profit * 95 - 5 * cost, 100 * cost)    \* edge * 0.95 - 0.05
        conservative == Rat(kelly.n * 25, kelly.d * 100)
        position == RatMulInt(conservative, e.total_capital)
        max_position == Rat(e.total_capital, 10)
    IN  IF conservative.n > 0
        THEN (IF RatGe(position, max_position) THEN max_position ELSE position)
        ELSE Rat(0, 1)

check_single_platform(e, market) ==
    IF Len(market.outcome_prices) < 2 THEN None
    ELSE
    LET yes_price == price_or_zero(market.outcome_prices, 0)
        no_price == price_or_zero(market.outcome_prices, 1)
        total_cost == yes_price + no_price
        gross_profit == Dollar - total_cost
        fee == get_platform_fee(market.platform)
        total_fees == MulRate(total_cost, fee) * 2
        net_profit == gross_profit - total_fees
        roi == Rat(net_profit * 100, total_cost)
    IN  IF yes_price < MinPrice \/ no_price < MinPrice THEN None
        ELSE IF ~(total_cost < Dollar /\ total_cost > 0) THEN None
        ELSE IF ~(net_profit >= e.min_profit_threshold) THEN None
        ELSE IF ~RatGe(roi, RatMulInt(e.min_roi, 100)) THEN None
        ELSE Some([id |-> <<"single", market.id>>,
                   opp_type |-> "Single-Platform",
                   market_a |-> market.id,
                   market_b |-> market.id,
                   platform_a |-> market.platform,
                   platform_b |-> market.platform,
                   buy_yes_price |-> yes_price,
                   buy_no_price |-> no_price,
                   total_cost |-> total_cost,
                   gross_profit |-> gross_profit,
                   net_profit_after_fees |-> net_profit,
                   roi_percent |-> roi,
                   suggested_position |-> calculate_position_size(e, net_profit, total_cost)])

\* the spread that only ever takes the first hedge, YES on A and NO on B
spread_first_hedge_only(e, market_a, market_b) ==
    LET yes_a == price_or_zero(market_a.outcome_prices, 0)
        no_a == price_or_zero(market_a.outcome_prices, 1)
        yes_b == price_or_zero(market_b.outcome_prices, 0)
        no_b == price_or_zero(market_b.outcome_prices, 1)
        fee_a == get_platform_fee(market_a.platform)
        fee_b == get_platform_fee(market_b.platform)
        \* Strategy 1: YES on A, NO on B
        cost_1 == yes_a + no_b
        fees_1 == MulRate(yes_a, fee_a) + MulRate(no_b, fee_b)
        net_profit_1 == Dollar - cost_1 - fees_1
        \* Strategy 2: YES on B, NO on A
        cost_2 == yes_b + no_a
        fees_2 == MulRate(yes_b, fee_b) + MulRate(no_a, fee_a)
        net_profit_2 == Dollar - cost_2 - fees_2
        first == TRUE
        best_cost == IF first THEN cost_1 ELSE cost_2
        best_net_profit == IF first THEN net_profit_1 ELSE net_profit_2
        buy_yes_market == IF first THEN market_a ELSE market_b
        buy_no_market == IF first THEN market_b ELSE market_a
        buy_yes_price == IF first THEN yes_a ELSE yes_b
        buy_no_price == IF first THEN no_b ELSE no_a
        roi == Rat(best_net_profit * 100, best_cost)
    IN  IF yes_a = 0 \/ no_a = 0 \/ yes_b = 0 \/ no_b = 0 THEN None
        ELSE IF ~(best_net_profit >= e.min_profit_threshold /\ best_cost > 0) THEN None
        ELSE IF ~RatGe(roi, RatMulInt(e.min_roi, 100)) THEN None
        ELSE Some([id |-> <<"cross", buy_yes_market.id, buy_no_market.id>>,
                   opp_type |-> "Cross-Platform",
                   market_a |-> buy_yes_market.id,
                   market_b |-> buy_no_market.id,
                   platform_a |-> buy_yes_market.platform,
                   platform_b |-> buy_no_market.platform,
                   buy_yes_price |-> buy_yes_price,
                   buy_no_price |-> buy_no_price,
                   total_cost |-> best_cost,
                   gross_profit |-> Dollar - best_cost,
                   net_profit_after_fees |-> best_net_profit,
                   roi_percent |-> roi,
                   suggested_position |-> calculate_position_size(e, best_net_profit, best_cost)])

calculate_cross_platform_spread(e, market_a, market_b) ==
    LET yes_a == price_or_zero(market_a.outcome_prices, 0)
        no_a == price_or_zero(market_a.outcome_prices, 1)
        yes_b == price_or_zero(market_b.outcome_prices, 0)
        no_b == price_or_zero(market_b.outcome_prices, 1)
        fee_a == get_platform_fee(market_a.platform)
        fee_b == get_platform_fee(market_b.platform)
        \* Strategy 1: YES on A, NO on B
        cost_1 == yes_a + no_b
        fees_1 == MulRate(yes_a, fee_a) + MulRate(no_b, fee_b)
        net_profit_1 == Dollar - cost_1 - fees_1
        \* Strategy 2: YES on B, NO on A
        cost_2 == yes_b + no_a
        fees_2 == MulRate(yes_b, fee_b) + MulRate(no_a, fee_a)
        net_profit_2 == Dollar - cost_2 - fees_2
        first == net_profit_1 > net_profit_2
        best_cost == IF first THEN cost_1 ELSE cost_2
        best_net_profit == IF first THEN net_profit_1 ELSE net_profit_2
        buy_yes_market == IF first THEN market_a ELSE market_b
        buy_no_market == IF first THEN market_b ELSE market_a
        buy_yes_price == IF first THEN yes_a ELSE yes_b
        buy_no_price == IF first THEN no_b ELSE no_a
        roi == Rat(best_net_profit * 100, best_cost)
    IN  IF yes_a = 0 \/ no_a = 0 \/ yes_b = 0 \/ no_b = 0 THEN None
        ELSE IF ~(best_net_profit >= e.min_profit_threshold /\ best_cost > 0) THEN None
        ELSE IF ~RatGe(roi, RatMulInt(e.min_roi, 100)) THEN None
        ELSE Some([id |-> <<"cross", buy_yes_market.id, buy_no_market.id>>,
                   opp_type |-> "Cross-Platform",
                   market_a |-> buy_yes_market.id,
                   market_b |-> buy_no_market.id,
                   platform_a |-> buy_yes_market.platform,
                   platform_b |-> buy_no_market.platform,
                   buy_yes_price |-> buy_yes_price,
                   buy_no_price |-> buy_no_price,
                   total_cost |-> best_cost,
                   gross_profit |-> Dollar - best_cost,
                   net_profit_after_fees |-> best_net_profit,
                   roi_percent |-> roi,
                   suggested_position |-> calculate_position_size(e, best_net_profit, best_cost)])

\* the selection that keeps a pair whose similarity is the threshold itself
is_cross_candidate_at_least(poly_market, kalshi_market) ==
    /\ words(poly_market) # {}
    /\ words(kalshi_market) # {}
    /\ ~(Abs(Len(lower_text(poly_market)) - Len(lower_text(kalshi_market))) > MAX_LEN_DIFF)
    /\ LET similarity == calculate_similarity_sets(words(poly_market), words(kalshi_market))
       IN  RatGe(similarity, SIMILARITY_THRESHOLD)

\* the body of the loops of check_cross_platform: is the pair passed on to
\* calculate_cross_platform_spread
is_cross_candidate(poly_market, kalshi_market) ==
    /\ words(poly_market) # {}
    /\ words(kalshi_market) # {}
    /\ ~(Abs(Len(lower_text(poly_market)) - Len(lower_text(kalshi_market))) > MAX_LEN_DIFF)
    /\ LET similarity == calculate_similarity_sets(words(poly_market), words(kalshi_market))
       IN  ~RatGe(SIMILARITY_THRESHOLD, similarity)

select_platform(ms, platform) == SelectSeq(ms, LAMBDA m : m.platform = platform)

check_cross_platform(e, ms) ==
    LET polymarket == select_platform(ms, "Polymarket")
        kalshi == select_platform(ms, "Kalshi")
    IN  Concat([i \in 1..Len(polymarket) |->
            Concat([j \in 1..Len(kalshi) |->
                IF is_cross_candidate(polymarket[i], kalshi[j])
                THEN calculate_cross_platform_spread(e, polymarket[i], kalshi[j])
                ELSE None])])

\* keyword_idx_a and keyword_idx_b: the patterns a lower-cased text holds
\* on the implying and on the implied side
PatternsA(text) ==
    {p \in 1..Len(IMPLICATION_PATTERNS) : contains(text, IMPLICATION_PATTERNS[p][1])}

PatternsB(text) ==
    {p \in 1..Len(IMPLICATION_PATTERNS) : contains(text, IMPLICATION_PATTERNS[p][2])}

SubjectsIn(text) == {k \in 1..Len(subjects) : contains(text, subjects[k])}

is_subset_market(text_a, text_b) ==
    \E k \in 1..Len(subset_indicators) :
        /\ contains(text_a, subset_indicators[k][1])
        /\ contains(text_b, subset_indicators[k][2])
        /\ ~contains(text_b, subset_indicators[k][1])

PoolLowerTexts == {LowerTextOf[t] : t \in PoolTexts}

PatternsAOf == [t \in PoolLowerTexts |-> PatternsA(t)]

PatternsBOf == [t \in PoolLowerTexts |-> PatternsB(t)]

SubjectsOf == [t \in PoolLowerTexts |-> SubjectsIn(t)]

IsSubsetOf == [a \in PoolLowerTexts, b \in PoolLowerTexts |-> is_subset_market(a, b)]

Dependency(i, j, type) == [implying_market |-> i, implied_market |-> j, dependency_type |-> type]

\* the pairs of two index lists with a market paired with itself
pairs_of_with_self(a_markets, b_markets, keep, type) ==
    Concat([x \in 1..Len(a_markets) |->
        Concat([y \in 1..Len(b_markets) |->
            IF <<a_markets[x], b_markets[y]>> \in keep
            THEN <<Dependency(a_markets[x], b_markets[y], type)>>
            ELSE <<>>])])

\* the ordered pairs (i, j), i # j, of two index lists that are in `keep`,
\* i outermost
pairs_of(a_markets, b_markets, keep, type) ==
    Concat([x \in 1..Len(a_markets) |->
        Concat([y \in 1..Len(b_markets) |->
            IF a_markets[x] # b_markets[y] /\ <<a_markets[x], b_markets[y]>> \in keep
            THEN <<Dependency(a_markets[x], b_markets[y], type)>>
            ELSE <<>>])])

\* the markets of a subject group
subject_group(ms, k) == Ascending({i \in 1..Len(ms) : k \in SubjectsOf[lower_text(ms[i])]})

\* the subjects whose group can yield a pair; the other groups yield nothing
\* wherever the map's iteration puts them
paired_subjects(ms) == {k \in 1..Len(subjects) : Len(subject_group(ms, k)) >= 2}

\* the orders in which subject_groups, a HashMap, can be iterated
subject_orders(ms) ==
    LET S == paired_subjects(ms)
    IN  {o \in [1..Cardinality(S) -> S] : \A x, y \in 1..Cardinality(S) : x # y => o[x] # o[y]}

detect_dependencies(ms, subject_order) ==
    LET all_pairs == (1..Len(ms)) \X (1..Len(ms))
        subset_pairs ==
            {ij \in all_pairs : IsSubsetOf[lower_text(ms[ij[1]]), lower_text(ms[ij[2]])]}
        implies ==
            Concat([p \in 1..Len(IMPLICATION_PATTERNS) |->
                pairs_of(Ascending({i \in 1..Len(ms) : p \in PatternsAOf[lower_text(ms[i])]}),
                         Ascending({j \in 1..Len(ms) : p \in PatternsBOf[lower_text(ms[j])]}),
                         all_pairs, "implies")])
        subset ==
            Concat([g \in 1..Len(subject_order) |->
                pairs_of(subject_group(ms, subject_order[g]),
                         subject_group(ms, subject_order[g]),
                         subset_pairs, "subset")])
    IN  implies \o subset

\* the combinatorial check with the ROI gate of the single-venue check
combinatorial_with_roi_gate(e, implying, implied) ==
    LET implying_yes == price_or_zero(implying.outcome_prices, 0)
        implied_yes == price_or_zero(implied.outcome_prices, 0)
        price_gap == implying_yes - implied_yes
        implying_no == price_or_zero(implying.outcome_prices, 1)
        total_cost == implying_no + implied_yes
        fee_implying == get_platform_fee(implying.platform)
        fee_implied == get_platform_fee(implied.platform)
        total_fees == MulRate(implying_no, fee_implying) + MulRate(implied_yes, fee_implied)
        gross_profit == price_gap
        net_profit == gross_profit - total_fees
    IN  IF implying_yes < MinPrice \/ implied_yes < MinPrice THEN None
        ELSE IF ~(implying_yes > implied_yes + DepMargin) THEN None
        ELSE IF ~(net_profit >= e.min_profit_threshold) THEN None
        ELSE IF ~RatGe(Rat(net_profit * 100, total_cost), RatMulInt(e.min_roi, 100)) THEN None
        ELSE Some([id |-> <<"comb", implying.id, implied.id>>,
                   opp_type |-> "Combinatorial",
                   market_a |-> implying.id,
                   market_b |-> implied.id,
                   platform_a |-> implying.platform,
                   platform_b |-> implied.platform,
                   buy_yes_price |-> implied_yes,
                   buy_no_price |-> implying_no,
                   total_cost |-> total_cost,
                   gross_profit |-> gross_profit,
                   net_profit_after_fees |-> net_profit,
                   roi_percent |-> Rat(net_profit * 100, total_cost),
                   suggested_position |-> calculate_position_size(e, net_profit, total_cost)])

\* the combinatorial check without the margin between the two YES prices
combinatorial_without_margin(e, implying, implied) ==
    LET implying_yes == price_or_zero(implying.outcome_prices, 0)
        implied_yes == price_or_zero(implied.outcome_prices, 0)
        price_gap == Abs(implying_yes - implied_yes)
        implying_no == price_or_zero(implying.outcome_prices, 1)
        total_cost == implying_no + implied_yes
        fee_implying == get_platform_fee(implying.platform)
        fee_implied == get_platform_fee(implied.platform)
        total_fees == MulRate(implying_no, fee_implying) + MulRate(implied_yes, fee_implied)
        gross_profit == price_gap
        net_profit == gross_profit - total_fees
    IN  IF implying_yes < MinPrice \/ implied_yes < MinPrice THEN None
        ELSE IF ~(net_profit >= e.min_profit_threshold) THEN None
        ELSE Some([id |-> <<"comb", implying.id, implied.id>>,
                   opp_type |-> "Combinatorial",
                   market_a |-> implying.id,
                   market_b |-> implied.id,
                   platform_a |-> implying.platform,
                   platform_b |-> implied.platform,
                   buy_yes_price |-> implied_yes,
                   buy_no_price |-> implying_no,
                   total_cost |-> total_cost,
                   gross_profit |-> gross_profit,
                   net_profit_after_fees |-> net_profit,
                   roi_percent |-> Rat(net_profit * 100, total_cost),
                   suggested_position |-> calculate_position_size(e, net_profit, total_cost)])

check_combinatorial_one(e, implying, implied) ==
    LET implying_yes == price_or_zero(implying.outcome_prices, 0)
        implied_yes == price_or_zero(implied.outcome_prices, 0)
        price_gap == implying_yes - implied_yes
        implying_no == price_or_zero(implying.outcome_prices, 1)
        total_cost == implying_no + implied_yes
        fee_implying == get_platform_fee(implying.platform)
        fee_implied == get_platform_fee(implied.platform)
        total_fees == MulRate(implying_no, fee_implying) + MulRate(implied_yes, fee_implied)
        gross_profit == price_gap
        net_profit == gross_profit - total_fees
    IN  IF implying_yes < MinPrice \/ implied_yes < MinPrice THEN None
        ELSE IF ~(implying_yes > implied_yes + DepMargin) THEN None
        ELSE IF ~(net_profit >= e.min_profit_threshold) THEN None
        ELSE Some([id |-> <<"comb", implying.id, implied.id>>,
                   opp_type |-> "Combinatorial",
                   market_a |-> implying.id,
                   market_b |-> implied.id,
                   platform_a |-> implying.platform,
                   platform_b |-> implied.platform,
                   buy_yes_price |-> implied_yes,
                   buy_no_price |-> implying_no,
                   total_cost |-> total_cost,
                   gross_profit |-> gross_profit,
                   net_profit_after_fees |-> net_profit,
                   roi_percent |-> Rat(net_profit * 100, total_cost),
                   suggested_position |-> calculate_position_size(e, net_profit, total_cost)])

check_combinatorial_arbitrage(e, ms, subject_order) ==
    LET dependencies == detect_dependencies(ms, subject_order)
    IN  Concat([d \in 1..Len(dependencies) |->
            check_combinatorial_one(e, ms[dependencies[d].implying_market],
                                       ms[dependencies[d].implied_market])])

\* the multi-outcome check with the ROI gate of the single-venue check
multi_condition_with_roi_gate(e, market) ==
    LET total == SumSeq(market.outcome_prices)
        gross_profit == Dollar - total
        fee == get_platform_fee(market.platform)
        total_fees == MulRate(total, fee)
        net_profit == gross_profit - total_fees
    IN  IF ~(Len(market.outcome_prices) > 2) THEN None
        ELSE IF ~(total < Dollar /\ total > 0) THEN None
        ELSE IF ~(net_profit >= e.min_profit_threshold) THEN None
        ELSE IF ~RatGe(Rat(net_profit * 100, total), RatMulInt(e.min_roi, 100)) THEN None
        ELSE Some([id |-> <<"multi", market.id>>,
                   opp_type |-> "Multi-Condition",
                   market_a |-> market.id,
                   market_b |-> market.id,
                   platform_a |-> market.platform,
                   platform_b |-> market.platform,
                   buy_yes_price |-> total,
                   buy_no_price |-> 0,
                   total_cost |-> total,
                   gross_profit |-> gross_profit,
                   net_profit_after_fees |-> net_profit,
                   roi_percent |-> Rat(net_profit * 100, total),
                   suggested_position |-> calculate_position_size(e, net_profit, total)])

check_multi_condition_one(e, market) ==
    LET total == SumSeq(market.outcome_prices)
        gross_profit == Dollar - total
        fee == get_platform_fee(market.platform)
        total_fees == MulRate(total, fee)
        net_profit == gross_profit - total_fees
    IN  IF ~(Len(market.outcome_prices) > 2) THEN None
        ELSE IF ~(total < Dollar /\ total > 0) THEN None
        ELSE IF ~(net_profit >= e.min_profit_threshold) THEN None
        ELSE Some([id |-> <<"multi", market.id>>,
                   opp_type |-> "Multi-Condition",
                   market_a |-> market.id,
                   market_b |-> market.id,
                   platform_a |-> market.platform,
                   platform_b |-> market.platform,
                   buy_yes_price |-> total,
                   buy_no_price |-> 0,
                   total_cost |-> total,
                   gross_profit |-> gross_profit,
                   net_profit_after_fees |-> net_profit,
                   roi_percent |-> Rat(net_profit * 100, total),
                   suggested_position |-> calculate_position_size(e, net_profit, total)])

check_multi_condition_rebalancing(e, ms) ==
    Concat([i \in 1..Len(ms) |-> check_multi_condition_one(e, ms[i])])

single_opps(e, ms) ==
    Concat([i \in 1..Len(ms) |-> check_single_platform(e, ms[i])])

\* Vec::sort_by(|a, b| b.net.partial_cmp(&a.net)): a stable sort, largest first.
\* insert x behind every element that does not compare after it
RECURSIVE sort_insert(_, _)
sort_insert(sorted, x) ==
    IF sorted = <<>> THEN <<x>>
    ELSE IF x.net_profit_after_fees > Head(sorted).net_profit_after_fees
         THEN <<x>> \o sorted
         ELSE <<Head(sorted)>> \o sort_insert(Tail(sorted), x)

\* the list left in the order the detectors appended to it
unsorted(s) == s

RECURSIVE sort_by_profit(_)
sort_by_profit(s) ==
    IF s = <<>> THEN <<>>
    ELSE sort_insert(sort_by_profit(SubSeq(s, 1, Len(s) - 1)), s[Len(s)])

\* analyze_markets, with `subject_order` the order in which the map of the
\* subject groups is iterated
analyze_markets(e, ms, subject_order) ==
    sort_by_profit(single_opps(e, ms)
                    \o check_cross_platform(e, ms)
                    \o check_combinatorial_arbitrage(e, ms, subject_order)
                    \o check_multi_condition_rebalancing(e, ms))

-----------------------------------------------------------------------------
(* cross_matcher.rs *)

NBA_TEAMS == <<
    "celtics", "nets", "knicks", "76ers", "raptors",
    "bulls", "cavaliers", "pistons", "pacers", "bucks",
    "hawks", "hornets", "heat", "magic", "wizards",
    "nuggets", "timberwolves", "thunder", "trail blazers", "jazz",
    "warriors", "clippers", "lakers", "suns", "kings",
    "mavericks", "rockets", "grizzlies", "pelicans", "spurs" >>

NFL_TEAMS == <<
    "patriots", "bills", "dolphins", "jets",
    "steelers", "ravens", "bengals", "browns",
    "texans", "colts", "jaguars", "titans",
    "chiefs", "raiders", "chargers", "broncos",
    "eagles", "commanders", "giants", "cowboys",
    "packers", "bears", "vikings", "lions",
    "buccaneers", "saints", "falcons", "panthers",
    "49ers", "seahawks", "rams", "cardinals" >>

SPORTS_CATEGORIES == {"nba", "nfl", "soccer", "mlb"}

\* each regex (?i)\b(a|b|...)\b as its name and the literals it matches between
\* two word boundaries
entity_patterns == <<
    <<"trump", {"trump"}>>,
    <<"biden", {"biden"}>>,
    <<"harris", {"harris"}>>,
    <<"desantis", {"desantis"}>>,
    <<"vance", {"vance"}>>,
    <<"newsom", {"newsom"}>>,
    <<"haley", {"haley"}>>,
    <<"obama", {"obama"}>>,
    <<"bitcoin", {"bitcoin", "btc"}>>,
    <<"ethereum", {"ethereum", "eth"}>>,
    <<"solana", {"solana", "sol"}>>,
    <<"fed", {"fed", "federal reserve", "fomc"}>>,
    <<"inflation", {"inflation"}>>,
    <<"recession", {"recession"}>>,
    <<"super_bowl", {"super bowl"}>>,
    <<"nba_finals", {"nba final", "nba finals"}>>,
    <<"world_series", {"world series"}>>,
    <<"world_cup", {"world cup"}>>,
    <<"champions_league", {"champions league"}>> >>

extra_terms == <<
    "president", "election", "win", "price", "champion", "finals", "nominee" >>

categories == <<
    <<"us_politics", <<"trump", "biden", "harris", "desantis", "president", "election", "congress", "senate", "republican", "democrat", "white house">> >>,
    <<"crypto", <<"bitcoin", "ethereum", "btc", "eth", "crypto", "solana">> >>,
    <<"economics", <<"fed", "inflation", "recession", "gdp", "interest rate", "unemployment">> >>,
    <<"nba", <<"nba", "basketball", "lakers", "celtics", "warriors", "finals">> >>,
    <<"nfl", <<"nfl", "super bowl", "football", "patriots", "chiefs">> >>,
    <<"soccer", <<"world cup", "fifa", "soccer", "premier league", "champions league">> >>,
    <<"mlb", <<"mlb", "baseball", "world series">> >>,
    <<"ai_tech", <<"openai", "chatgpt", "google", "apple", "tesla", "nvidia", "ai">> >> >>

\* the days two close dates may lie apart
MAX_GAP_DAYS == 90

\* the half days of a day
HalfDays == 2

\* the length a question is cut to
QUESTION_LEN == 100

Digits == "0123456789"

IsDigit(c) == contains(Digits, c)

\* \w, for the characters of the model
IsWordChar(c) == contains(LowerCase \o UpperCase \o Digits \o "_", c)

\* \b between the characters i and i + 1 of the text
word_boundary(text, i) ==
    LET left == i >= 1 /\ IsWordChar(CharAt(text, i))
        right == i + 1 <= Len(text) /\ IsWordChar(CharAt(text, i + 1))
    IN  left # right

\* \b literal \b matches at position i
literal_at(text, literal, i) ==
    /\ i + Len(literal) - 1 <= Len(text)
    /\ SubSeq(text, i, i + Len(literal) - 1) = literal
    /\ word_boundary(text, i - 1)
    /\ word_boundary(text, i + Len(literal) - 1)

\* Regex::is_match of \b(l1|l2|...)\b
is_match(literals, text) ==
    \E literal \in literals : \E i \in 1..Len(text) : literal_at(text, literal, i)

\* 202[0-9]|203[0-9] at position i
year_digits_at(text, i, decades) ==
    /\ i + 3 <= Len(text)
    /\ SubSeq(text, i, i + 2) \in decades
    /\ IsDigit(CharAt(text, i + 3))

\* year_re matches at position i
year_at(text, i) ==
    /\ year_digits_at(text, i, {"202", "203"})
    /\ word_boundary(text, i - 1)
    /\ word_boundary(text, i + 3)

\* season_re matches at position i
season_at(text, i) ==
    /\ year_digits_at(text, i, {"202"})
    /\ i + 4 <= Len(text)
    /\ CharAt(text, i + 4) = "-"
    /\ year_digits_at(text, i + 5, {"202"})
    /\ word_boundary(text, i - 1)
    /\ word_boundary(text, i + 8)

\* captures_iter: the matches from position i on, leftmost first, none
\* overlapping another; the search for the next match starts where the last
\* one ended
RECURSIVE year_captures(_, _)
year_captures(text, i) ==
    LET found == {j \in i..Len(text) : year_at(text, j)}
    IN  IF found = {} THEN {}
        ELSE LET j == CHOOSE j \in found : \A k \in found : j <= k
             IN  {SubSeq(text, j, j + 3)} \cup year_captures(text, j + 4)

RECURSIVE season_captures(_, _)
season_captures(text, i) ==
    LET found == {j \in i..Len(text) : season_at(text, j)}
    IN  IF found = {} THEN {}
        ELSE LET j == CHOOSE j \in found : \A k \in found : j <= k
             IN  {SubSeq(text, j, j + 3), SubSeq(text, j + 5, j + 8)}
                    \cup season_captures(text, j + 9)

extract_years(text) == year_captures(text, 1) \cup season_captures(text, 1)

get_question(market) ==
    IF IsSome(market.question) /\ market.question[1] # "" THEN market.question[1]
    ELSE IF IsSome(market.title)
         THEN (IF IsSome(market.subtitle)
               THEN market.title[1] \o " - " \o market.subtitle[1]
               ELSE market.title[1])
         ELSE ""

\* the first category with one keyword in the text
RECURSIVE classify_from_one_hit(_, _)
classify_from_one_hit(text, c) ==
    IF c > Len(categories) THEN None
    ELSE IF Cardinality({k \in 1..Len(categories[c][2]) : contains(text, categories[c][2][k])}) >= 1
         THEN Some(categories[c][1])
         ELSE classify_from_one_hit(text, c + 1)

\* the first category with two keywords in the text, if any
RECURSIVE classify_from(_, _)
classify_from(text, c) ==
    IF c > Len(categories) THEN None
    ELSE IF Cardinality({k \in 1..Len(categories[c][2]) : contains(text, categories[c][2][k])}) >= 2
         THEN Some(categories[c][1])
         ELSE classify_from(text, c + 1)

classify(text) == classify_from(text, 1)

process_question(question) ==
    LET text == to_lowercase(question)
    IN  [text |-> text,
         entities |->
            {entity_patterns[k][1] : k \in {k \in 1..Len(entity_patterns) :
                                                is_match(entity_patterns[k][2], text)}}
                \cup {t \in Range(extra_terms) : contains(text, t)},
         teams |-> {t \in Range(NBA_TEAMS \o NFL_TEAMS) : contains(text, t)},
         category |-> classify(text)]

\* the questions of the pool, each processed once
PoolQuestions ==
    {get_question(GatePool[i]) : i \in 1..Len(GatePool)}
        \cup {get_question(Pool[i]) : i \in 1..Len(Pool)}

ProcessedOf == [q \in PoolQuestions |-> process_question(q)]

YearsOf == [q \in PoolQuestions |-> extract_years(ProcessedOf[q].text)]

process(market) == ProcessedOf[get_question(market)]

years_of(market) == YearsOf[get_question(market)]

\* str::len: the bytes of the UTF-8 encoding (one for an ASCII character, two
\* for the others the model has)
byte_len(text) ==
    Len(text) + Cardinality({i \in 1..Len(text) : CharAt(text, i) = "é"})

\* str::is_char_boundary: the byte offset n is the start or the end of text or
\* lies between two characters
is_char_boundary(text, n) ==
    \E k \in 0..Len(text) : byte_len(SubSeq(text, 1, k)) = n

\* q[..100] of a question of more than 100 bytes; the slice panics when byte
\* 100 is not a character boundary
truncate_panics(q) == byte_len(q) > QUESTION_LEN /\ ~is_char_boundary(q, QUESTION_LEN)

\* the first 100 bytes of the question; what it gives for a question the
\* slice panics on is never read
truncate_question(q) ==
    IF byte_len(q) > QUESTION_LEN
    THEN SubSeq(q, 1, CHOOSE k \in 0..Len(q) :
                        /\ byte_len(SubSeq(q, 1, k)) <= QUESTION_LEN
                        /\ byte_len(SubSeq(q, 1, k + 1)) > QUESTION_LEN)
    ELSE q

\* (x * 10000.0).round() / 10000.0, for x >= 0 in ticks
round_4(x) == ((x + 5) \div 10) * 10

Min(a, b) == IF a <= b THEN a ELSE b

\* the confidence with one team bonus however many teams are shared
confidence_flat_team_bonus(shared, years_agree, is_sports, team_overlap) ==
    Min(2 * shared + (IF years_agree THEN 3 ELSE 0)
            + (IF is_sports THEN 3 ELSE 0),
        10)

\* confidence, in tenths, before it is compared with 0.5
confidence_of(shared, years_agree, is_sports, team_overlap) ==
    Min(2 * shared + (IF years_agree THEN 3 ELSE 0)
            + (IF is_sports THEN 3 * team_overlap ELSE 0),
        10)

\* match_one without the year check
match_one_no_year_gate(raw_a, raw_b) ==
    LET proc_a == process(raw_a)
        proc_b == process(raw_b)
        shared == proc_a.entities \cap proc_b.entities
        years_a == years_of(raw_a)
        years_b == years_of(raw_b)
        both_years == years_a # {} /\ years_b # {}
        both_dates == /\ IsSome(raw_a.close_date) /\ IsSome(raw_b.close_date)
                      /\ raw_a.close_date[1].parses /\ raw_b.close_date[1].parses
        gap_days == Abs(raw_a.close_date[1].t - raw_b.close_date[1].t) \div HalfDays
        is_sports == proc_a.category[1] \in SPORTS_CATEGORIES
        team_overlap == Cardinality(proc_a.teams \cap proc_b.teams)
        confidence == confidence_of(Cardinality(shared),
                                    both_years /\ years_a \cap years_b # {},
                                    is_sports, team_overlap)
        yes_a == price_or_zero(raw_a.outcome_prices, 0)
        yes_b == price_or_zero(raw_b.outcome_prices, 0)
    IN  IF Cardinality(shared) < 2 THEN None
        ELSE IF both_dates /\ gap_days > MAX_GAP_DAYS THEN None
        ELSE IF is_sports /\ (proc_a.teams = {} \/ proc_b.teams = {}) THEN None
        ELSE IF is_sports /\ team_overlap = 0 THEN None
        ELSE IF confidence < 5 THEN None
        ELSE Some([platform_a |-> raw_a.platform,
                   platform_b |-> raw_b.platform,
                   id_a |-> raw_a.id,
                   id_b |-> raw_b.id,
                   question_a |-> truncate_question(get_question(raw_a)),
                   question_b |-> truncate_question(get_question(raw_b)),
                   yes_price_a |-> yes_a,
                   yes_price_b |-> yes_b,
                   price_diff |-> round_4(Abs(yes_a - yes_b)),
                   confidence |-> confidence,
                   category |-> proc_a.category[1],
                   shared_entities |-> shared])

\* match_one whose sports check only asks for teams on both sides
match_one_no_team_overlap(raw_a, raw_b) ==
    LET proc_a == process(raw_a)
        proc_b == process(raw_b)
        shared == proc_a.entities \cap proc_b.entities
        years_a == years_of(raw_a)
        years_b == years_of(raw_b)
        both_years == years_a # {} /\ years_b # {}
        both_dates == /\ IsSome(raw_a.close_date) /\ IsSome(raw_b.close_date)
                      /\ raw_a.close_date[1].parses /\ raw_b.close_date[1].parses
        gap_days == Abs(raw_a.close_date[1].t - raw_b.close_date[1].t) \div HalfDays
        is_sports == proc_a.category[1] \in SPORTS_CATEGORIES
        team_overlap == Cardinality(proc_a.teams \cap proc_b.teams)
        confidence == confidence_of(Cardinality(shared),
                                    both_years /\ years_a \cap years_b # {},
                                    is_sports, team_overlap)
        yes_a == price_or_zero(raw_a.outcome_prices, 0)
        yes_b == price_or_zero(raw_b.outcome_prices, 0)
    IN  IF Cardinality(shared) < 2 THEN None
        ELSE IF both_years /\ years_a \cap years_b = {} THEN None
        ELSE IF both_dates /\ gap_days > MAX_GAP_DAYS THEN None
        ELSE IF is_sports /\ (proc_a.teams = {} \/ proc_b.teams = {}) THEN None
        ELSE IF confidence < 5 THEN None
        ELSE Some([platform_a |-> raw_a.platform,
                   platform_b |-> raw_b.platform,
                   id_a |-> raw_a.id,
                   id_b |-> raw_b.id,
                   question_a |-> truncate_question(get_question(raw_a)),
                   question_b |-> truncate_question(get_question(raw_b)),
                   yes_price_a |-> yes_a,
                   yes_price_b |-> yes_b,
                   price_diff |-> round_4(Abs(yes_a - yes_b)),
                   confidence |-> confidence,
                   category |-> proc_a.category[1],
                   shared_entities |-> shared])

\* the body of the loops of match_pair: the match of two markets of one
\* category, if they pass every check
match_one(raw_a, raw_b) ==
    LET proc_a == process(raw_a)
        proc_b == process(raw_b)
        shared == proc_a.entities \cap proc_b.entities
        years_a == years_of(raw_a)
        years_b == years_of(raw_b)
        both_years == years_a # {} /\ years_b # {}
        both_dates == /\ IsSome(raw_a.close_date) /\ IsSome(raw_b.close_date)
                      /\ raw_a.close_date[1].parses /\ raw_b.close_date[1].parses
        gap_days == Abs(raw_a.close_date[1].t - raw_b.close_date[1].t) \div HalfDays
        is_sports == proc_a.category[1] \in SPORTS_CATEGORIES
        team_overlap == Cardinality(proc_a.teams \cap proc_b.teams)
        confidence == confidence_of(Cardinality(shared),
                                    both_years /\ years_a \cap years_b # {},
                                    is_sports, team_overlap)
        yes_a == price_or_zero(raw_a.outcome_prices, 0)
        yes_b == price_or_zero(raw_b.outcome_prices, 0)
    IN  IF Cardinality(shared) < 2 THEN None
        ELSE IF both_years /\ years_a \cap years_b = {} THEN None
        ELSE IF both_dates /\ gap_days > MAX_GAP_DAYS THEN None
        ELSE IF is_sports /\ (proc_a.teams = {} \/ proc_b.teams = {}) THEN None
        ELSE IF is_sports /\ team_overlap = 0 THEN None
        ELSE IF confidence < 5 THEN None
        ELSE Some([platform_a |-> raw_a.platform,
                   platform_b |-> raw_b.platform,
                   id_a |-> raw_a.id,
                   id_b |-> raw_b.id,
                   question_a |-> truncate_question(get_question(raw_a)),
                   question_b |-> truncate_question(get_question(raw_b)),
                   yes_price_a |-> yes_a,
                   yes_price_b |-> yes_b,
                   price_diff |-> round_4(Abs(yes_a - yes_b)),
                   confidence |-> confidence,
                   category |-> proc_a.category[1],
                   shared_entities |-> shared])

\* Vec::retain with the set of the keys seen: the first match of each
\* (id_a, id_b) stays
RECURSIVE deduplicate(_, _)
deduplicate(matches, seen) ==
    IF matches = <<>> THEN <<>>
    ELSE LET key == <<Head(matches).id_a, Head(matches).id_b>>
         IN  IF key \in seen
             THEN deduplicate(Tail(matches), seen)
             ELSE <<Head(matches)>> \o deduplicate(Tail(matches), seen \cup {key})

match_pair(markets_a, markets_b) ==
    LET b_by_cat(cat) ==
            Ascending({j \in 1..Len(markets_b) : process(markets_b[j]).category = Some(cat)})
        matches ==
            Concat([i \in 1..Len(markets_a) |->
                IF process(markets_a[i]).category = None THEN <<>>
                ELSE LET b_indices == b_by_cat(process(markets_a[i]).category[1])
                     IN  Concat([x \in 1..Len(b_indices) |->
                            match_one(markets_a[i], markets_b[b_indices[x]])])])
    IN  deduplicate(matches, {})

\* match_pair panics when a pair it builds a CrossMatch for has a question
\* the truncation panics on
match_pair_panics(markets_a, markets_b) ==
    \E i \in 1..Len(markets_a), j \in 1..Len(markets_b) :
        /\ process(markets_a[i]).category # None
        /\ process(markets_a[i]).category = process(markets_b[j]).category
        /\ match_one(markets_a[i], markets_b[j]) # None
        /\ \/ truncate_panics(get_question(markets_a[i]))
           \/ truncate_panics(get_question(markets_b[j]))

\* Vec::sort_by(|a, b| b.confidence.partial_cmp(&a.confidence)): stable,
\* largest first
RECURSIVE confidence_insert(_, _)
confidence_insert(sorted, x) ==
    IF sorted = <<>> THEN <<x>>
    ELSE IF x.confidence > Head(sorted).confidence
         THEN <<x>> \o sorted
         ELSE <<Head(sorted)>> \o confidence_insert(Tail(sorted), x)

RECURSIVE sort_by_confidence(_)
sort_by_confidence(s) ==
    IF s = <<>> THEN <<>>
    ELSE confidence_insert(sort_by_confidence(SubSeq(s, 1, Len(s) - 1)), s[Len(s)])

\* platform_markets of main: the markets of each venue that has any
platform_keys(ms) == {ms[i].platform : i \in 1..Len(ms)}

platform_markets(ms) == [p \in platform_keys(ms) |-> select_platform(ms, p)]

\* the orders in which the keys of the map can be iterated
key_orders(all_markets) ==
    LET S == DOMAIN all_markets
    IN  {o \in [1..Cardinality(S) -> S] : \A x, y \in 1..Cardinality(S) : x # y => o[x] # o[y]}

\* match_all, with `platforms` the order its map yields the keys in
match_all(all_markets, platforms) ==
    sort_by_confidence(
        Concat([i \in 1..Len(platforms) |->
            Concat([d \in 1..(Len(platforms) - i) |->
                match_pair(all_markets[platforms[i]], all_markets[platforms[i + d]])])]))

\* match_all compares every pair of venues, in whatever order
match_all_panics(all_markets) ==
    \E p, q \in DOMAIN all_markets :
        p # q /\ match_pair_panics(all_markets[p], all_markets[q])

cross_key(cm) == <<"cross", cm.id_a, cm.id_b>>

-----------------------------------------------------------------------------
(* polymarket_fetcher.rs, kalshi_fetcher.rs, manifold_fetcher.rs *)

\* Result<Vec<Market>, Box<dyn Error>>
Ok(ms) == [ok |-> TRUE, markets |-> ms]
Err == [ok |-> FALSE, markets |-> <<>>]

\* The answer of a venue to one request: the request or the decoding of its
\* body fails ("err"), or it yields a page under an HTTP status.  An item of a
\* page is a market and whether the fetcher keeps it (open, not expired, of an
\* enabled category); a Kalshi page comes with or without a cursor.
Failed == [status |-> "err", items |-> <<>>, cursor |-> FALSE]
Page(items, cursor) == [status |-> "200", items |-> items, cursor |-> cursor]
Status(code) == [status |-> code, items |-> <<>>, cursor |-> FALSE]
Kept(m) == [market |-> m, keep |-> TRUE]
Dropped(m) == [market |-> m, keep |-> FALSE]

\* the answer to the n-th request of a call: a server answers every request,
\* the ones past the listed answers as the last of them
response(server, n) == server[Min(n, Len(server))]

\* the markets a fetcher pushes for a page
pushed(items) ==
    LET kept == SelectSeq(items, LAMBDA it : it.keep)
    IN  [i \in 1..Len(kept) |-> kept[i].market]

\* the locals of fetch_all_markets as the loop is entered, with the statuses
\* of the answers to the requests of the call
fetch_start == [page_count |-> 0, all_markets |-> <<>>, answers |-> <<>>, result |-> None]

\* PolymarketFetcher::fetch_all_markets: one turn of the loop
polymarket_page(server, max_pages, f) ==
    IF f.page_count >= max_pages THEN [f EXCEPT !.result = Some(Ok(f.all_markets))]
    ELSE LET r == response(server, Len(f.answers) + 1)
             g == [f EXCEPT !.answers = Append(@, r.status)]
         IN  IF r.status = "err" THEN [g EXCEPT !.result = Some(Err)]
             ELSE IF r.items = <<>> THEN [g EXCEPT !.result = Some(Ok(g.all_markets))]
             ELSE [g EXCEPT !.all_markets = @ \o pushed(r.items), !.page_count = @ + 1]

\* the Kalshi loop going on to max_pages whether or not a cursor came back
kalshi_page_until_limit(server, max_pages, f) ==
    IF f.page_count >= max_pages THEN [f EXCEPT !.result = Some(Ok(f.all_markets))]
    ELSE LET r == response(server, Len(f.answers) + 1)
             g == [f EXCEPT !.answers = Append(@, r.status)]
         IN  IF r.status = "err" THEN [g EXCEPT !.result = Some(Err)]
             ELSE [g EXCEPT !.all_markets = @ \o pushed(r.items), !.page_count = @ + 1]

\* KalshiFetcher::fetch_all_markets: one turn of the loop
kalshi_page(server, max_pages, f) ==
    IF f.page_count >= max_pages THEN [f EXCEPT !.result = Some(Ok(f.all_markets))]
    ELSE LET r == response(server, Len(f.answers) + 1)
             g == [f EXCEPT !.answers = Append(@, r.status)]
         IN  IF r.status = "err" THEN [g EXCEPT !.result = Some(Err)]
             ELSE LET h == [g EXCEPT !.all_markets = @ \o pushed(r.items),
                                     !.page_count = @ + 1]
                  IN  IF ~r.cursor THEN [h EXCEPT !.result = Some(Ok(h.all_markets))]
                      ELSE h

fetch_page(venue, server, max_pages, f) ==
    IF venue = "Polymarket" THEN polymarket_page(server, max_pages, f)
    ELSE kalshi_page(server, max_pages, f)

\* the loop of fetch_all_markets, from the locals f until it returns
RECURSIVE fetch_loop(_, _, _, _)
fetch_loop(venue, server, max_pages, f) ==
    IF IsSome(f.result) THEN f
    ELSE fetch_loop(venue, server, max_pages, fetch_page(venue, server, max_pages, f))

\* ManifoldFetcher::fetch_all_markets: one request
manifold_fetch(server) ==
    LET r == response(server, 1)
        g == [fetch_start EXCEPT !.answers = <<r.status>>]
    IN  IF r.status = "err" THEN [g EXCEPT !.result = Some(Err)]
        ELSE IF r.status # "200" THEN [g EXCEPT !.result = Some(Ok(<<>>))]
        ELSE [g EXCEPT !.all_markets = pushed(r.items), !.result = Some(Ok(pushed(r.items)))]

fetch_all_markets(venue, server, max_pages) ==
    IF venue = "Manifold" THEN manifold_fetch(server)
    ELSE fetch_loop(venue, server, max_pages, fetch_start)

-----------------------------------------------------------------------------
(* main.rs: one scan cycle after the other *)

\* no function is running on its own
NoLocals == <<>>

\* the notifier has not been called: the bag of its calls (method and key of
\* the item) since the cache was last cleared, and of the current cycle the
\* calls that failed and the outcome of the summary
NoTelegram == [attempts |-> EmptyBag, failed |-> {}, summary |-> "none"]

NoEngine == [min_roi |-> Rat(0, 1), min_profit_threshold |-> 0, total_capital |-> 0]

NoConfig == [min_roi_percent |-> 0, min_profit_threshold |-> 0]

Init ==
    /\ pc = "load"
    /\ config = NoConfig
    /\ engine = NoEngine
    /\ markets = <<>>
    /\ opportunities = <<>>
    /\ cross_matches = <<>>
    /\ sent_ids = {}
    /\ telegram = NoTelegram
    /\ locals = NoLocals

\* Config::load, ArbitrageEngine::new
LoadConfig ==
    /\ pc = "load"
    /\ \E c \in Configs :
        /\ config' = c
        /\ engine' = ArbitrageEngine_new(Rat(c.min_roi_percent, 100),
                                         c.min_profit_threshold, Capital)
    /\ pc' = "fetch"
    /\ UNCHANGED <<markets, opportunities, cross_matches, sent_ids, locals, telegram>>

\* the three fetches, joined
FetchMarkets ==
    /\ pc = "fetch"
    /\ \E ms \in Snapshots : markets' = ms
    /\ opportunities' = <<>>
    /\ pc' = "single"
    /\ UNCHANGED <<config, engine, cross_matches, sent_ids, locals, telegram>>

SinglePlatform ==
    /\ pc = "single"
    /\ opportunities' = opportunities \o single_opps(engine, markets)
    /\ pc' = "cross"
    /\ UNCHANGED <<config, engine, markets, cross_matches, sent_ids, locals, telegram>>

CrossPlatform ==
    /\ pc = "cross"
    /\ opportunities' = opportunities \o check_cross_platform(engine, markets)
    /\ pc' = "comb"
    /\ UNCHANGED <<config, engine, markets, cross_matches, sent_ids, locals, telegram>>

Combinatorial ==
    /\ pc = "comb"
    /\ \E order \in subject_orders(markets) :
        opportunities' = opportunities \o check_combinatorial_arbitrage(engine, markets, order)
    /\ pc' = "multi"
    /\ UNCHANGED <<config, engine, markets, cross_matches, sent_ids, locals, telegram>>

MultiCondition ==
    /\ pc = "multi"
    /\ opportunities' = opportunities \o check_multi_condition_rebalancing(engine, markets)
    /\ pc' = "sort"
    /\ UNCHANGED <<config, engine, markets, cross_matches, sent_ids, locals, telegram>>

SortOpportunities ==
    /\ pc = "sort"
    /\ opportunities' = sort_by_profit(opportunities)
    /\ pc' = "done"
    /\ UNCHANGED <<config, engine, markets, cross_matches, sent_ids, locals, telegram>>

\* the end of the loop body: what the cycle held is dropped
NextCycle ==
    /\ pc = "done"
    /\ config' = NoConfig
    /\ engine' = NoEngine
    /\ markets' = <<>>
    /\ opportunities' = <<>>
    /\ pc' = "load"
    /\ UNCHANGED <<cross_matches, sent_ids, locals, telegram>>

Next ==
    \/ LoadConfig
    \/ FetchMarkets
    \/ SinglePlatform
    \/ CrossPlatform
    \/ Combinatorial
    \/ MultiCondition
    \/ SortOpportunities
    \/ NextCycle

Spec == Init /\ [][Next]_vars

-----------------------------------------------------------------------------
(* main.rs: the scan cycles whose markets leave the engine nothing to report,
   from the fetch to the cross-match alerts *)

\* Config::load when config.json is missing or not readable; the two states
\* of notifications_enabled that the Telegram bot switches between
DefaultConfig ==
    [min_roi_percent |-> 1, min_profit_threshold |-> 5000, notifications_enabled |-> TRUE]

PausedConfig == [DefaultConfig EXCEPT !.notifications_enabled = FALSE]

CycleConfigs == {DefaultConfig, PausedConfig}

\* main as it enters its loop (the startup message is not followed)
InitMatch ==
    /\ pc = "start"
    /\ config = NoConfig
    /\ engine = NoEngine
    /\ markets = <<>>
    /\ opportunities = <<>>
    /\ cross_matches = <<>>
    /\ sent_ids = {}
    /\ telegram = NoTelegram
    /\ locals = NoLocals

\* last_clear.elapsed() > 1 h: the cache is emptied at the start of a cycle
ClearCache ==
    /\ pc = "start"
    /\ sent_ids' = {}
    /\ telegram' = NoTelegram
    /\ pc' = "config"
    /\ UNCHANGED <<config, engine, markets, opportunities, cross_matches, locals>>

KeepCache ==
    /\ pc = "start"
    /\ telegram' = [telegram EXCEPT !.failed = {}, !.summary = "none"]
    /\ pc' = "config"
    /\ UNCHANGED <<config, engine, markets, opportunities, cross_matches, sent_ids, locals>>

\* Config::load with the cycle run whether or not notifications are enabled
ReloadConfigAndScan ==
    /\ pc = "config"
    /\ \E c \in CycleConfigs :
        /\ config' = c
        /\ engine' = ArbitrageEngine_new(Rat(c.min_roi_percent, 100),
                                         c.min_profit_threshold, Capital)
        /\ pc' = "fetch"
    /\ UNCHANGED <<markets, opportunities, cross_matches, sent_ids, locals, telegram>>

\* Config::load; with notifications_enabled false the cycle sleeps and
\* starts over, otherwise it builds its engine
ReloadConfig ==
    /\ pc = "config"
    /\ \E c \in CycleConfigs :
        /\ config' = c
        /\ IF ~c.notifications_enabled
           THEN /\ pc' = "start"
                /\ UNCHANGED engine
           ELSE /\ engine' = ArbitrageEngine_new(Rat(c.min_roi_percent, 100),
                                                 c.min_profit_threshold, Capital)
                /\ pc' = "fetch"
    /\ UNCHANGED <<markets, opportunities, cross_matches, sent_ids, locals, telegram>>

\* new_opps and new_cross
NoneNew == [new_opps |-> 0, new_cross |-> 0]

FetchQuiet ==
    /\ pc = "fetch"
    /\ \E ms \in MatchSnapshots : markets' = ms
    /\ locals' = NoneNew
    /\ pc' = "analyze"
    /\ UNCHANGED <<config, engine, opportunities, cross_matches, sent_ids, telegram>>

AnalyzeMarkets ==
    /\ pc = "analyze"
    /\ \E subject_order \in subject_orders(markets) :
        opportunities' = analyze_markets(engine, markets, subject_order)
    /\ pc' = "alert_opps"
    /\ UNCHANGED <<config, engine, markets, cross_matches, sent_ids, locals, telegram>>

\* the two alert loops, from item k on: a key of the cache is passed over, any
\* other key is put into the cache, counted and its notification sent with
\* the loop's method of the notifier, which succeeds or fails as `outcomes`
\* tells
RECURSIVE alert_new(_, _, _, _, _)
alert_new(method, k, keys, outcomes, a) ==
    IF k > Len(keys) THEN a
    ELSE IF keys[k] \in a.sent_ids THEN alert_new(method, k + 1, keys, outcomes, a)
    ELSE alert_new(method, k + 1, keys, outcomes,
            [sent_ids |-> a.sent_ids \cup {keys[k]},
             new |-> a.new + 1,
             telegram |-> [a.telegram EXCEPT
                              !.attempts = @ (+) SetToBag({<<method, keys[k]>>}),
                              !.failed = IF outcomes[k] THEN @
                                         ELSE @ \cup {<<method, keys[k]>>}]])

\* the loop with a key sent again although the cache holds it
alert_every(method, keys, outcomes, cache, calls) ==
    [sent_ids |-> cache \cup Range(keys),
     new |-> Len(keys),
     telegram |-> [calls EXCEPT
                    !.attempts = @ (+) [call \in {<<method, key>> : key \in Range(keys)} |->
                                        Cardinality({k \in 1..Len(keys) : keys[k] = call[2]})],
                    !.failed = @ \cup {<<method, keys[k]>> :
                                            k \in {k \in 1..Len(keys) : ~outcomes[k]}}]]

\* the loop with the key put into the cache once its send has succeeded
alert_then_insert(method, keys, outcomes, cache, calls) ==
    LET a == alert_new(method, 1, keys, outcomes,
                       [sent_ids |-> cache, new |-> 0, telegram |-> calls])
    IN  [a EXCEPT !.sent_ids = cache \cup {key \in @ : <<method, key>> \notin a.telegram.failed}]

\* for opp in &opportunities { .. } and for cm in &cross_matches { .. }
alert_loop(method, keys, outcomes, cache, calls) ==
    alert_new(method, 1, keys, outcomes, [sent_ids |-> cache, new |-> 0, telegram |-> calls])

\* the loop over opportunities
AlertOpportunities ==
    /\ pc = "alert_opps"
    /\ LET keys == [k \in 1..Len(opportunities) |-> opportunities[k].id]
       IN  \E outcomes \in [1..Len(keys) -> BOOLEAN] :
            LET a == alert_loop("send_opportunity", keys, outcomes, sent_ids, telegram)
            IN  /\ sent_ids' = a.sent_ids
                /\ telegram' = a.telegram
                /\ locals' = [locals EXCEPT !.new_opps = a.new]
    /\ pc' = "match"
    /\ UNCHANGED <<config, engine, markets, opportunities, cross_matches>>

MatchAll ==
    /\ pc = "match"
    /\ IF match_all_panics(platform_markets(markets))
       THEN /\ pc' = "panic"
            /\ UNCHANGED cross_matches
       ELSE /\ \E platforms \in key_orders(platform_markets(markets)) :
                cross_matches' = match_all(platform_markets(markets), platforms)
            /\ pc' = "alert"
    /\ UNCHANGED <<config, engine, markets, opportunities, sent_ids, locals, telegram>>

\* the loop over cross_matches
AlertCrossMatches ==
    /\ pc = "alert"
    /\ LET keys == [k \in 1..Len(cross_matches) |-> cross_key(cross_matches[k])]
       IN  \E outcomes \in [1..Len(keys) -> BOOLEAN] :
            LET a == alert_loop("send_cross_match", keys, outcomes, sent_ids, telegram)
            IN  /\ sent_ids' = a.sent_ids
                /\ telegram' = a.telegram
                /\ locals' = [locals EXCEPT !.new_cross = a.new]
    /\ pc' = "summary"
    /\ UNCHANGED <<config, engine, markets, opportunities, cross_matches>>

\* the summary of a cycle with new alerts, sent or failed; then the sleep and
\* the end of the loop body, where what the cycle held is dropped
SendSummary ==
    /\ pc = "summary"
    /\ IF locals.new_opps + locals.new_cross > 0
       THEN \E ok \in BOOLEAN :
                telegram' = [telegram EXCEPT !.summary = IF ok THEN "sent" ELSE "failed"]
       ELSE UNCHANGED telegram
    /\ markets' = <<>>
    /\ opportunities' = <<>>
    /\ cross_matches' = <<>>
    /\ locals' = NoLocals
    /\ pc' = "start"
    /\ UNCHANGED <<config, engine, sent_ids>>

\* the steps of a cycle after its fetch
AfterFetch ==
    \/ AnalyzeMarkets
    \/ AlertOpportunities
    \/ MatchAll
    \/ AlertCrossMatches
    \/ SendSummary

NextMatch ==
    \/ ClearCache
    \/ KeepCache
    \/ ReloadConfig
    \/ FetchQuiet
    \/ AfterFetch

SpecMatch == InitMatch /\ [][NextMatch]_vars

-----------------------------------------------------------------------------
(* main.rs: the scan cycles of markets that keep their ids while their prices
   move *)

FetchRepriced ==
    /\ pc = "fetch"
    /\ \E ms \in AlertSnapshots : markets' = ms
    /\ locals' = NoneNew
    /\ pc' = "analyze"
    /\ UNCHANGED <<config, engine, opportunities, cross_matches, sent_ids, telegram>>

NextAlerts ==
    \/ ClearCache
    \/ KeepCache
    \/ ReloadConfig
    \/ FetchRepriced
    \/ AfterFetch

SpecAlerts == InitMatch /\ [][NextAlerts]_vars

-----------------------------------------------------------------------------
(* main.rs: the scan cycles with the three fetches *)

\* two markets of one event whose prices leave a hedge across the venues, a
\* Polymarket market with a hedge of its own, and a Manifold market of the event
ElectionPoly ==
    MarketAt("pm1", "Polymarket", Some(QElection), None, None, <<40000, 55000>>, Some(Date(0)))
OhioPoly == Poly("p07", QOhio, <<40000, 50000>>)
ElectionKalshi ==
    MarketAt("km1", "Kalshi", None, Some(TElection), Some("2024"), <<60000, 40000>>, Some(Date(100)))
ElectionManifold == Manifold("mm1", QElectionShort, 50000)

\* what the venues answer to the requests of a cycle
PolymarketServers == {
    <<Page(<<Kept(ElectionPoly), Dropped(OhioPoly)>>, FALSE), Page(<<>>, FALSE)>>,
    <<Page(<<Kept(ElectionPoly)>>, FALSE), Page(<<Kept(OhioPoly)>>, FALSE), Page(<<>>, FALSE)>>,
    <<Page(<<Kept(ElectionPoly)>>, FALSE), Failed>>,
    <<Failed>> }

KalshiServers == {
    <<Page(<<Kept(ElectionKalshi)>>, FALSE)>>,
    <<Page(<<Kept(ElectionKalshi)>>, TRUE), Failed>>,
    <<Failed>> }

ManifoldServers == {
    <<Page(<<Kept(ElectionManifold)>>, FALSE)>>,
    <<Status("500")>>,
    <<Failed>> }

\* max_pages_polymarket and max_pages_kalshi of config.json
PageChoices == {1, MaxPages}

\* the markets a fetch had pushed, also when it ended in an error
markets_pushed(f) == f.all_markets

\* Ok(m) => m, Err(e) => Vec::new()
markets_or_empty(f) == f.result[1].markets

\* the three fetches, joined; each fetcher loads the configuration itself
FetchAll ==
    /\ pc = "fetch"
    /\ \E ps \in PolymarketServers, ks \in KalshiServers, ms \in ManifoldServers,
          max_pages_polymarket \in PageChoices, max_pages_kalshi \in PageChoices :
        LET fetches ==
                [Polymarket |-> fetch_all_markets("Polymarket", ps, max_pages_polymarket),
                 Kalshi |-> fetch_all_markets("Kalshi", ks, max_pages_kalshi),
                 Manifold |-> fetch_all_markets("Manifold", ms, 1)]
        IN  /\ markets' = markets_or_empty(fetches.Polymarket)
                            \o markets_or_empty(fetches.Kalshi)
                            \o markets_or_empty(fetches.Manifold)
            /\ locals' = [fetches |-> fetches, new_opps |-> 0, new_cross |-> 0]
    /\ pc' = "analyze"
    /\ UNCHANGED <<config, engine, opportunities, cross_matches, sent_ids, telegram>>

NextMain ==
    \/ ClearCache
    \/ KeepCache
    \/ ReloadConfig
    \/ FetchAll
    \/ AfterFetch

SpecMain == InitMatch /\ [][NextMain]_vars

-----------------------------------------------------------------------------
(* fetch_all_markets of the two paginated venues, one turn of the loop after
   the other *)

\* max_pages is an i32 of config.json
PageLimits == -1..MaxPages

AnyItem(venue) == IF venue = "Polymarket" THEN Kept(ElectionPoly) ELSE Kept(ElectionKalshi)

Responses(venue) ==
    {Failed, Page(<<>>, FALSE), Page(<<>>, TRUE),
     Page(<<AnyItem(venue)>>, FALSE), Page(<<AnyItem(venue)>>, TRUE)}

\* the servers of a venue: every sequence of answers to MaxPages requests
Servers(venue) == UNION {[1..n -> Responses(venue)] : n \in 1..MaxPages}

InitFetch ==
    /\ pc = "fetching"
    /\ config = DefaultConfig
    /\ engine = NoEngine
    /\ markets = <<>>
    /\ opportunities = <<>>
    /\ cross_matches = <<>>
    /\ sent_ids = {}
    /\ telegram = NoTelegram
    /\ \E venue \in {"Polymarket", "Kalshi"} :
        \E server \in Servers(venue), max_pages \in PageLimits :
            locals = [venue |-> venue, server |-> server, max_pages |-> max_pages,
                      f |-> fetch_start]

PolymarketPage ==
    /\ pc = "fetching"
    /\ locals.venue = "Polymarket"
    /\ locals' = [locals EXCEPT !.f = polymarket_page(locals.server, locals.max_pages, @)]
    /\ pc' = IF IsSome(locals'.f.result) THEN "returned" ELSE "fetching"
    /\ UNCHANGED <<config, engine, markets, opportunities, cross_matches, sent_ids, telegram>>

KalshiPage ==
    /\ pc = "fetching"
    /\ locals.venue = "Kalshi"
    /\ locals' = [locals EXCEPT !.f = kalshi_page(locals.server, locals.max_pages, @)]
    /\ pc' = IF IsSome(locals'.f.result) THEN "returned" ELSE "fetching"
    /\ UNCHANGED <<config, engine, markets, opportunities, cross_matches, sent_ids, telegram>>

NextFetch ==
    \/ PolymarketPage
    \/ KalshiPage

SpecFetch == InitFetch /\ [][NextFetch]_vars

\* a request is answered or times out after 30 s, and nothing else holds up a
\* turn of the loop
SpecFetchLive == SpecFetch /\ WF_vars(NextFetch)

-----------------------------------------------------------------------------
(* match_all, run once on each list of markets *)

InitGates ==
    /\ pc = "match"
    /\ config = DefaultConfig
    /\ engine = ArbitrageEngine_new(Rat(DefaultConfig.min_roi_percent, 100),
                                    DefaultConfig.min_profit_threshold, Capital)
    /\ markets \in GateSnapshots
    /\ opportunities = <<>>
    /\ cross_matches = <<>>
    /\ sent_ids = {}
    /\ telegram = NoTelegram
    /\ locals = NoLocals

SpecGates == InitGates /\ [][MatchAll]_vars

-----------------------------------------------------------------------------
(* calculate_position_size, through the detectors and on its own *)

\* TOTAL_CAPITAL as main reads it, in dollars
Capitals == {0, 1000}

\* net profits and costs the sizer is called with, in ticks
NetProfits == {1000, 4000, 5000, 6000, 10000, 45000, 60000, 200000}
Costs == {1000, 50000, 95000, 100000, 150000}

InitSize ==
    /\ pc = "single"
    /\ config = DefaultConfig
    /\ \E total_capital \in Capitals :
        engine = ArbitrageEngine_new(Rat(DefaultConfig.min_roi_percent, 100),
                                     DefaultConfig.min_profit_threshold, total_capital)
    /\ markets \in Snapshots
    /\ opportunities = <<>>
    /\ cross_matches = <<>>
    /\ sent_ids = {}
    /\ telegram = NoTelegram
    /\ locals = NoLocals

\* one call of the sizer
SizePosition ==
    /\ pc = "done"
    /\ \E net_profit \in NetProfits, cost \in Costs :
        locals' = [net_profit |-> net_profit,
                   cost |-> cost,
                   position |-> calculate_position_size(engine, net_profit, cost)]
    /\ pc' = "sized"
    /\ UNCHANGED <<config, engine, markets, opportunities, cross_matches, sent_ids, telegram>>

NextSize ==
    \/ SinglePlatform
    \/ CrossPlatform
    \/ Combinatorial
    \/ MultiCondition
    \/ SortOpportunities
    \/ SizePosition

SpecSize == InitSize /\ [][NextSize]_vars

-----------------------------------------------------------------------------
(* The parallel scans of analyze_markets and check_cross_platform, worker by
   worker: the items of a scan are split into consecutive chunks, one worker
   folds each chunk into a list of its own, and collect() appends the lists. *)

\* the markets of these cycles: markets of the pool with and without a
\* single-venue and a cross-venue opportunity
ParPool == <<Pool[1], Pool[2], Pool[7], Pool[8], Pool[15], Pool[17], Pool[19], Pool[20]>>

\* a worker that keeps the results of the first chunk only
collect_first(results) == IF results = <<>> THEN <<>> ELSE results[1]

\* collect(): the workers' lists, appended in the order of the chunks
collect(results) == Concat(results)

\* the items of a parallel scan
par_items(job, ms, data) ==
    CASE job = "single" -> ms
      [] job = "tokens_poly" -> select_platform(ms, "Polymarket")
      [] job = "tokens_kalshi" -> select_platform(ms, "Kalshi")
      [] job = "pairs" -> data.poly_data

\* what the closure of a parallel scan gives for one item
par_item(job, e, item, data) ==
    CASE job = "single" -> check_single_platform(e, item)
      [] job \in {"tokens_poly", "tokens_kalshi"} ->
            <<[market |-> item, text |-> lower_text(item), words |-> words(item)]>>
      [] job = "pairs" ->
            Concat([j \in 1..Len(data.kalshi_data) |->
                IF is_cross_candidate(item.market, data.kalshi_data[j].market)
                THEN calculate_cross_platform_spread(e, item.market, data.kalshi_data[j].market)
                ELSE None])

\* the scans in the order they run
next_job(job) ==
    CASE job = "single" -> "tokens_poly"
      [] job = "tokens_poly" -> "tokens_kalshi"
      [] job = "tokens_kalshi" -> "pairs"
      [] job = "pairs" -> "comb"

InitPar ==
    /\ pc = "single"
    /\ config = DefaultConfig
    /\ engine = ArbitrageEngine_new(Rat(DefaultConfig.min_roi_percent, 100),
                                    DefaultConfig.min_profit_threshold, Capital)
    /\ markets \in
        { [i \in 1..Len(ix) |-> ParPool[ix[i]]] :
            ix \in { s \in UNION { [1..n -> 1..Len(ParPool)] : n \in 0..MaxParMarkets } :
                        \A i \in 1..(Len(s) - 1) : s[i] < s[i + 1] } }
    /\ opportunities = <<>>
    /\ cross_matches = <<>>
    /\ sent_ids = {}
    /\ telegram = NoTelegram
    /\ locals = [job |-> "", chunks |-> <<>>, next |-> <<>>, results |-> <<>>,
                 poly_data |-> <<>>, kalshi_data |-> <<>>]

\* par_iter(): the items are split into consecutive chunks, one per worker
Fork ==
    /\ locals.job = ""
    /\ pc \in {"single", "tokens_poly", "tokens_kalshi", "pairs"}
    /\ LET items == par_items(pc, markets, locals)
           sizes == { s \in UNION { [1..k -> 1..Len(items)] : k \in 0..MaxWorkers } :
                        SumSeq(s) = Len(items) }
       IN  \E s \in sizes :
             locals' = [locals EXCEPT
                 !.job = pc,
                 !.chunks = [w \in 1..Len(s) |->
                                SubSeq(items, SumSeq(SubSeq(s, 1, w - 1)) + 1,
                                              SumSeq(SubSeq(s, 1, w)))],
                 !.next = [w \in 1..Len(s) |-> 1],
                 !.results = [w \in 1..Len(s) |-> <<>>]]
    /\ UNCHANGED <<pc, config, engine, markets, opportunities, cross_matches, sent_ids, telegram>>

\* one worker handles the next item of its chunk
WorkerStep ==
    /\ locals.job # ""
    /\ \E w \in 1..Len(locals.chunks) :
        /\ locals.next[w] <= Len(locals.chunks[w])
        /\ locals' = [locals EXCEPT
                !.results[w] = @ \o par_item(locals.job, engine,
                                             locals.chunks[w][locals.next[w]], locals),
                !.next[w] = @ + 1]
    /\ UNCHANGED <<pc, config, engine, markets, opportunities, cross_matches, sent_ids, telegram>>

\* collect() once every worker is through, and what the caller does with it
Join ==
    /\ locals.job # ""
    /\ \A w \in 1..Len(locals.chunks) : locals.next[w] > Len(locals.chunks[w])
    /\ LET merged == collect(locals.results)
       IN  /\ opportunities' = IF locals.job \in {"single", "pairs"}
                               THEN opportunities \o merged
                               ELSE opportunities
           /\ locals' = [locals EXCEPT
                   !.job = "",
                   !.chunks = <<>>,
                   !.next = <<>>,
                   !.results = <<>>,
                   !.poly_data = IF locals.job = "tokens_poly" THEN merged ELSE @,
                   !.kalshi_data = IF locals.job = "tokens_kalshi" THEN merged ELSE @]
    /\ pc' = next_job(locals.job)
    /\ UNCHANGED <<config, engine, markets, cross_matches, sent_ids, telegram>>

NextPar ==
    \/ Fork
    \/ WorkerStep
    \/ Join

SpecPar == InitPar /\ [][NextPar]_vars

-----------------------------------------------------------------------------
(* What the claims are stated with *)

\* the fee rates of the specification (4.1), in per cent
SpecFee(platform) == IF platform = "Kalshi" THEN 1 ELSE 2

\* the positions of the opportunities of a kind for a pair of market ids
OppsOf(kind, a, b) ==
    {k \in 1..Len(opportunities) :
        /\ opportunities[k].opp_type = kind
        /\ opportunities[k].market_a = a
        /\ opportunities[k].market_b = b}

OppsOfKind(kind) == {k \in 1..Len(opportunities) : opportunities[k].opp_type = kind}

AfterSingle == pc \in {"cross", "comb", "multi", "sort", "done"}
AfterCross == pc \in {"comb", "multi", "sort", "done"}
AfterComb == pc \in {"multi", "sort", "done"}
AfterMulti == pc \in {"sort", "done"}

Yes(m) == price_or_zero(m.outcome_prices, 0)
No(m) == price_or_zero(m.outcome_prices, 1)

\* a market with outcome_prices = [y, n], both reliable
BinaryReliable(m) ==
    Len(m.outcome_prices) = 2 /\ Yes(m) >= MinPrice /\ No(m) >= MinPrice

SingleNet(m) == (Dollar - (Yes(m) + No(m))) - MulRate(Yes(m) + No(m), SpecFee(m.platform)) * 2

SingleRoi(m) == Rat(SingleNet(m) * 100, Yes(m) + No(m))

\* the minimum ROI of the engine and of the configuration, in per cent
EngineMinRoiPercent == RatMulInt(engine.min_roi, 100)
ConfigMinRoiPercent == Rat(config.min_roi_percent, 1)

(* C1: the single-venue detector emits nothing for a market [y, n] with
   y, n >= 0.01 and y + n >= 1; when y + n < 1 and the engine's thresholds are
   met it emits one Opportunity, and every Opportunity it emits has
   total_cost = y + n, gross_profit = 1 - (y + n),
   net_profit_after_fees = (1 - (y + n)) - (y + n) * fee * 2 with the venue's
   fee (Kalshi 1%, every other venue 2%) and roi_percent = net / total * 100. *)
C1_SingleVenueRecord ==
    AfterSingle =>
        \A i \in 1..Len(markets) :
            LET m == markets[i]
                total == Yes(m) + No(m)
                found == OppsOf("Single-Platform", m.id, m.id)
            IN  BinaryReliable(m) =>
                    /\ total >= Dollar => found = {}
                    /\ ( /\ total < Dollar
                         /\ SingleNet(m) >= engine.min_profit_threshold
                         /\ RatGe(SingleRoi(m), EngineMinRoiPercent) )
                       => Cardinality(found) = 1
                    /\ \A k \in found :
                        /\ opportunities[k].total_cost = total
                        /\ opportunities[k].gross_profit = Dollar - total
                        /\ opportunities[k].net_profit_after_fees = SingleNet(m)
                        /\ opportunities[k].roi_percent = SingleRoi(m)
                        /\ opportunities[k].buy_yes_price = Yes(m)
                        /\ opportunities[k].buy_no_price = No(m)

\* a Kalshi, a Polymarket and an unknown-venue market have each been emitted,
\* and a market with y + n >= 1 has been looked at
C1_Witness ==
    /\ AfterSingle
    /\ \E i \in 1..Len(markets) :
        /\ BinaryReliable(markets[i])
        /\ markets[i].platform = "Kalshi"
        /\ OppsOf("Single-Platform", markets[i].id, markets[i].id) # {}
    /\ \E i \in 1..Len(markets) :
        /\ BinaryReliable(markets[i])
        /\ Yes(markets[i]) + No(markets[i]) >= Dollar

(* C2 as claimed: the single-venue detector emits iff net >= the configured
   min_profit_threshold and net / total * 100 >= the configured minimum ROI
   per cent (so Kalshi 0.40 / 0.55, net 0.031, is accepted at 0.03). *)
C2_ConfiguredThreshold ==
    AfterSingle =>
        \A i \in 1..Len(markets) :
            LET m == markets[i]
                total == Yes(m) + No(m)
            IN  (BinaryReliable(m) /\ total < Dollar) =>
                    ( OppsOf("Single-Platform", m.id, m.id) # {}
                      <=> ( /\ SingleNet(m) >= config.min_profit_threshold
                            /\ RatGe(SingleRoi(m), ConfigMinRoiPercent) ) )

(* C2 amended: the single-venue detector emits iff net >= the larger of the
   configured min_profit_threshold and 0.05, and net / total * 100 >= the
   configured minimum ROI per cent; Kalshi 0.40 / 0.55 (net 0.031) is rejected
   at 0.05 and at 0.03 alike. *)
C2_FlooredThreshold ==
    AfterSingle =>
        \A i \in 1..Len(markets) :
            LET m == markets[i]
                total == Yes(m) + No(m)
                floor == IF config.min_profit_threshold >= Dollar \div 20
                         THEN config.min_profit_threshold ELSE Dollar \div 20
            IN  (BinaryReliable(m) /\ total < Dollar) =>
                    ( OppsOf("Single-Platform", m.id, m.id) # {}
                      <=> ( /\ SingleNet(m) >= floor
                            /\ RatGe(SingleRoi(m), ConfigMinRoiPercent) ) )

\* Kalshi 0.40 / 0.55 has been looked at with the threshold configured to 0.03
C2_Witness ==
    /\ AfterSingle
    /\ config.min_profit_threshold = 3000
    /\ \E i \in 1..Len(markets) :
        /\ markets[i].platform = "Kalshi"
        /\ markets[i].outcome_prices = <<40000, 55000>>
        /\ SingleNet(markets[i]) = 3100
        /\ OppsOf("Single-Platform", markets[i].id, markets[i].id) = {}

MultiTotal(m) == SumSeq(m.outcome_prices)

MultiNet(m) == (Dollar - MultiTotal(m)) - MulRate(MultiTotal(m), SpecFee(m.platform))

(* C3: the multi-outcome rebalancer emits a Multi-Condition Opportunity for a
   market iff the market has more than 2 outcome prices, 0 < total < 1 and
   net = (1 - total) - total * fee >= min_profit_threshold, whatever the ROI;
   the record has total_cost = total, gross_profit = 1 - total and that net. *)
C3_MultiOutcome ==
    AfterMulti =>
        \A i \in 1..Len(markets) :
            LET m == markets[i]
                found == OppsOf("Multi-Condition", m.id, m.id)
            IN  /\ found # {} <=>
                    ( /\ Len(m.outcome_prices) > 2
                      /\ 0 < MultiTotal(m)
                      /\ MultiTotal(m) < Dollar
                      /\ MultiNet(m) >= engine.min_profit_threshold )
                /\ Cardinality(found) <= 1
                /\ \A k \in found :
                    /\ opportunities[k].total_cost = MultiTotal(m)
                    /\ opportunities[k].gross_profit = Dollar - MultiTotal(m)
                    /\ opportunities[k].net_profit_after_fees = MultiNet(m)

\* a Multi-Condition opportunity whose ROI is below the minimum ROI, beside a
\* market of two prices
C3_Witness ==
    /\ AfterMulti
    /\ \E k \in OppsOfKind("Multi-Condition") :
        ~RatGe(opportunities[k].roi_percent, EngineMinRoiPercent)
    /\ \E i \in 1..Len(markets) :
        Len(markets[i].outcome_prices) = 2 /\ Yes(markets[i]) + No(markets[i]) < Dollar

\* the ordered pairs of markets the dependency builder relates
DependencyPairs ==
    LET order == CHOOSE o \in subject_orders(markets) : TRUE
        deps == detect_dependencies(markets, order)
    IN  {<<deps[d].implying_market, deps[d].implied_market>> : d \in 1..Len(deps)}

CombFees(a, b) == MulRate(No(a), SpecFee(a.platform)) + MulRate(Yes(b), SpecFee(b.platform))

CombNet(a, b) == (Yes(a) - Yes(b)) - CombFees(a, b)

(* C4: for each dependency (implying, implied) the combinatorial detector emits
   iff implying YES >= 0.01, implied YES >= 0.01, implying YES > implied YES +
   0.02 and net = (pa - pb) - (implying.NO * fee + implied.YES * fee) >=
   min_profit_threshold, whatever the ROI; the record has gross_profit =
   pa - pb, total_cost = implying.NO + implied.YES, roi = net / cost * 100. *)
C4_Combinatorial ==
    AfterComb =>
        LET dependencies == DependencyPairs
        IN
        \A i, j \in 1..Len(markets) :
            LET a == markets[i]
                b == markets[j]
                found == OppsOf("Combinatorial", a.id, b.id)
            IN  /\ found # {} <=>
                    ( /\ <<i, j>> \in dependencies
                      /\ Yes(a) >= MinPrice
                      /\ Yes(b) >= MinPrice
                      /\ Yes(a) > Yes(b) + 2 * MinPrice
                      /\ CombNet(a, b) >= engine.min_profit_threshold )
                /\ \A k \in found :
                    /\ opportunities[k].gross_profit = Yes(a) - Yes(b)
                    /\ opportunities[k].total_cost = No(a) + Yes(b)
                    /\ opportunities[k].net_profit_after_fees = CombNet(a, b)
                    /\ opportunities[k].roi_percent = Rat(CombNet(a, b) * 100, No(a) + Yes(b))

\* the example of the specification: 0.70 / 0.28 implying 0.60, both on Kalshi,
\* emitted with an ROI below the minimum ROI
C4_Witness ==
    /\ AfterComb
    /\ \E k \in OppsOfKind("Combinatorial") :
        /\ opportunities[k].platform_a = "Kalshi"
        /\ opportunities[k].platform_b = "Kalshi"
        /\ opportunities[k].total_cost = 88000
        /\ opportunities[k].gross_profit = 10000
        /\ opportunities[k].net_profit_after_fees = 9120
        /\ ~RatGe(opportunities[k].roi_percent, EngineMinRoiPercent)

\* the two hedges of a pair: YES on a and NO on b
HedgeCost(a, b) == Yes(a) + No(b)

HedgeNet(a, b) ==
    Dollar - HedgeCost(a, b)
        - (MulRate(Yes(a), SpecFee(a.platform)) + MulRate(No(b), SpecFee(b.platform)))

AllFourNonZero(a, b) == Yes(a) # 0 /\ No(a) # 0 /\ Yes(b) # 0 /\ No(b) # 0

\* the Cross-Platform opportunities of a pair of markets, in either direction
CrossOppsOf(a, b) ==
    OppsOf("Cross-Platform", a.id, b.id) \cup OppsOf("Cross-Platform", b.id, a.id)

(* C5: for a surviving Polymarket / Kalshi pair with all four prices non-zero
   at most one Opportunity is emitted; it is emitted iff the higher of the two
   nets is >= min_profit_threshold and its ROI >= the minimum ROI; its net is
   max(net1, net2), it buys YES on the market of the winning direction and its
   two legs are on different venues. *)
C5_CrossSpread ==
    AfterCross =>
        \A i, j \in 1..Len(markets) :
            LET a == markets[i]
                b == markets[j]
                net1 == HedgeNet(a, b)
                net2 == HedgeNet(b, a)
                first == net1 > net2
                best == IF first THEN net1 ELSE net2
                cost == IF first THEN HedgeCost(a, b) ELSE HedgeCost(b, a)
                found == CrossOppsOf(a, b)
            IN  ( /\ a.platform = "Polymarket"
                  /\ b.platform = "Kalshi"
                  /\ is_cross_candidate(a, b)
                  /\ AllFourNonZero(a, b) ) =>
                    /\ Cardinality(found) <= 1
                    /\ found # {} <=>
                        ( /\ best >= engine.min_profit_threshold
                          /\ RatGe(Rat(best * 100, cost), EngineMinRoiPercent) )
                    /\ \A k \in found :
                        /\ opportunities[k].net_profit_after_fees = best
                        /\ opportunities[k].net_profit_after_fees >= net1
                        /\ opportunities[k].net_profit_after_fees >= net2
                        /\ opportunities[k].total_cost = cost
                        /\ opportunities[k].roi_percent = Rat(best * 100, cost)
                        /\ opportunities[k].market_a = (IF first THEN a.id ELSE b.id)
                        /\ opportunities[k].platform_a # opportunities[k].platform_b

\* a pair whose second hedge wins: YES is bought on Kalshi, NO on Polymarket
C5_Witness ==
    /\ AfterCross
    /\ \E i, j \in 1..Len(markets) :
        /\ markets[i].platform = "Polymarket"
        /\ markets[j].platform = "Kalshi"
        /\ HedgeNet(markets[j], markets[i]) > HedgeNet(markets[i], markets[j])
        /\ \E k \in OppsOf("Cross-Platform", markets[j].id, markets[i].id) :
            /\ opportunities[k].platform_a = "Kalshi"
            /\ opportunities[k].platform_b = "Polymarket"

\* the Jaccard similarity of the token sets, computed from the texts
Tokens(m) == word_set(to_lowercase(get_market_text(m)))

Jaccard(a, b) ==
    LET both == Cardinality(Tokens(a) \cap Tokens(b))
    IN  Rat(both, Cardinality(Tokens(a)) + Cardinality(Tokens(b)) - both)

TextLenDiff(a, b) ==
    Abs(Len(to_lowercase(get_market_text(a))) - Len(to_lowercase(get_market_text(b))))

\* the pair would yield an Opportunity were it passed to the spread evaluation
SpreadEmits(a, b) == calculate_cross_platform_spread(engine, a, b) # None

\* the selection of the claim, with the least Jaccard similarity that survives
\* given as `keeps`
SelectionIs(keeps(_)) ==
    AfterCross =>
        /\ \A i, j \in 1..Len(markets) :
            LET a == markets[i]
                b == markets[j]
            IN  (a.platform = "Polymarket" /\ b.platform = "Kalshi" /\ SpreadEmits(a, b)) =>
                    ( CrossOppsOf(a, b) # {}
                      <=> ( /\ Tokens(a) # {}
                            /\ Tokens(b) # {}
                            /\ TextLenDiff(a, b) <= 60
                            /\ keeps(Jaccard(a, b)) ) )
        /\ \A k \in OppsOfKind("Cross-Platform") :
            {opportunities[k].platform_a, opportunities[k].platform_b} = {"Polymarket", "Kalshi"}

(* C6 as claimed: a pair reaches the spread evaluation iff it is a Polymarket /
   Kalshi pair with non-empty token sets, text lengths at most 60 apart and a
   Jaccard similarity not below 0.4 (a pair at exactly 0.4 survives). *)
C6_SelectionAtLeast == SelectionIs(LAMBDA sim : RatGe(sim, Rat(4, 10)))

(* C6 amended: a pair reaches the spread evaluation iff it is a Polymarket /
   Kalshi pair with non-empty token sets, text lengths at most 60 apart and a
   Jaccard similarity above 0.4 (a pair at exactly 0.4 is rejected). *)
C6_SelectionAbove == SelectionIs(LAMBDA sim : ~RatGe(Rat(4, 10), sim))

\* a pair at exactly 0.4 that the spread evaluation would have emitted, and none
\* was emitted
C6_Witness ==
    /\ AfterCross
    /\ \E i, j \in 1..Len(markets) :
        /\ markets[i].platform = "Polymarket"
        /\ markets[j].platform = "Kalshi"
        /\ Jaccard(markets[i], markets[j]) = Rat(4, 10)
        /\ TextLenDiff(markets[i], markets[j]) <= 60
        /\ SpreadEmits(markets[i], markets[j])
        /\ CrossOppsOf(markets[i], markets[j]) = {}

MarketOfId(id) == CHOOSE m \in Range(markets) : m.id = id

(* C7: no Opportunity analyze_markets returns has a leg bought below 0.01: the
   YES and the NO price of a Single-Platform, Cross-Platform or Combinatorial
   opportunity, and every outcome price of a Multi-Condition one. *)
C7_NoUnreliableLeg ==
    pc = "done" =>
        \A k \in 1..Len(opportunities) :
            IF opportunities[k].opp_type = "Multi-Condition"
            THEN \A p \in Range(MarketOfId(opportunities[k].market_a).outcome_prices) :
                    p >= MinPrice
            ELSE /\ opportunities[k].buy_yes_price >= MinPrice
                 /\ opportunities[k].buy_no_price >= MinPrice

\* how often x occurs in s
Count(s, x) == Cardinality({k \in 1..Len(s) : s[k] = x})

\* what the four detectors yield for the markets of this cycle, in the order
\* analyze_markets appends them
Produced ==
    single_opps(engine, markets)
        \o check_cross_platform(engine, markets)
        \o check_combinatorial_arbitrage(engine, markets,
                CHOOSE o \in subject_orders(markets) : TRUE)
        \o check_multi_condition_rebalancing(engine, markets)

(* C8: the list analyze_markets returns holds exactly the opportunities of the
   four detectors, each as often as it was produced, and
   net_profit_after_fees never increases from one element to the next. *)
C8_Ranked ==
    pc = "done" =>
        LET produced == Produced
        IN  /\ Len(opportunities) = Len(produced)
            /\ \A k \in 1..Len(produced) :
                Count(opportunities, produced[k]) = Count(produced, produced[k])
            /\ \A k \in 1..(Len(opportunities) - 1) :
                opportunities[k].net_profit_after_fees
                    >= opportunities[k + 1].net_profit_after_fees

\* a result the sort had to reorder
C8_Witness ==
    /\ pc = "done"
    /\ Len(opportunities) >= 2
    /\ opportunities # Produced
    /\ \E k \in 1..(Len(opportunities) - 1) :
        opportunities[k].net_profit_after_fees > opportunities[k + 1].net_profit_after_fees


-----------------------------------------------------------------------------
(* the matcher *)

CrossKeys(matches) == {cross_key(matches[k]) : k \in 1..Len(matches)}

AfterMatchAll == pc = "alert"

(* C9: every CrossMatch of the output of match_all has a confidence in [0, 1]
   and no two records of the output, whatever venue pairs they come from, have
   the same (id_a, id_b). *)
C9_ConfidenceAndUniqueKeys ==
    AfterMatchAll =>
        /\ \A k \in 1..Len(cross_matches) :
            cross_matches[k].confidence >= 0 /\ cross_matches[k].confidence <= 10
        /\ \A k, l \in 1..Len(cross_matches) :
            k # l => <<cross_matches[k].id_a, cross_matches[k].id_b>>
                        # <<cross_matches[l].id_a, cross_matches[l].id_b>>

(* C10: the keys cross_{id_a}_{id_b} of the matches of a set of markets are the
   same whatever the order in which match_all enumerates the venues of its
   map. *)
C10_KeyIndependentOfVenueOrder ==
    AfterMatchAll =>
        \A platforms \in key_orders(platform_markets(markets)) :
            CrossKeys(match_all(platform_markets(markets), platforms)) = CrossKeys(cross_matches)


-----------------------------------------------------------------------------
(* the ids of the opportunities *)

\* two ids of one kind for the same market or, for a Polymarket / Kalshi
\* pair, the same two markets
SameUnderlying(x, y) ==
    /\ x[1] = y[1]
    /\ IF x[1] = "cross"
       THEN Range(Tail(x)) = Range(Tail(y))
       ELSE Tail(x) = Tail(y)

(* C11: the ids that the engine gives, over the scan cycles, to the
   opportunities of one kind for the same market or the same pair of markets
   are one id, whatever the prices of the cycle and whichever hedge wins. *)
C11_StableOpportunityId ==
    \A x, y \in sent_ids : SameUnderlying(x, y) => x = y


-----------------------------------------------------------------------------
(* idempotence *)

\* analyze_markets yields one set of records for the markets of the cycle,
\* whatever the order in which the map of the subject groups is iterated
AnalyzeIdempotent ==
    engine # NoEngine =>
        \A o1, o2 \in subject_orders(markets) :
            Range(analyze_markets(engine, markets, o1))
                = Range(analyze_markets(engine, markets, o2))

\* match_all yields one set of records for the markets of the cycle, whatever
\* the order in which the map of the venues is iterated
MatchIdempotent ==
    AfterMatchAll =>
        \A platforms \in key_orders(platform_markets(markets)) :
            Range(match_all(platform_markets(markets), platforms)) = Range(cross_matches)

(* C12: analyze_markets and match_all, run again on the same markets, yield the
   same set of Opportunity records and the same set of CrossMatch records,
   under every iteration order of the maps they use. *)
C12_Idempotent == AnalyzeIdempotent /\ MatchIdempotent


-----------------------------------------------------------------------------
(* the gates of the matcher *)

\* the pairs of markets of two venues
VenuePairs ==
    {ij \in (1..Len(markets)) \X (1..Len(markets)) :
        markets[ij[1]].platform # markets[ij[2]].platform}

\* the records of the output with a on the a side and b on the b side
MatchesOf(a, b) ==
    {k \in 1..Len(cross_matches) :
        /\ cross_matches[k].platform_a = a.platform
        /\ cross_matches[k].id_a = a.id
        /\ cross_matches[k].platform_b = b.platform
        /\ cross_matches[k].id_b = b.id}

Matched(a, b) == MatchesOf(a, b) \cup MatchesOf(b, a) # {}

CategoryOf(m) == process(m).category

SameCategory(a, b) == CategoryOf(a) # None /\ CategoryOf(a) = CategoryOf(b)

SharedEntities(a, b) == process(a).entities \cap process(b).entities

SharedTeams(a, b) == process(a).teams \cap process(b).teams

YearsIntersect(a, b) == years_of(a) \cap years_of(b) # {}

YearsDisjoint(a, b) == years_of(a) # {} /\ years_of(b) # {} /\ ~YearsIntersect(a, b)

BothDatesParse(a, b) ==
    /\ IsSome(a.close_date) /\ a.close_date[1].parses
    /\ IsSome(b.close_date) /\ b.close_date[1].parses

\* the gap of the close dates, in half days
DateGap(a, b) == Abs(a.close_date[1].t - b.close_date[1].t)

\* the date gate as the matcher applies it: more than 90 whole days
DateGateRejects(a, b) == BothDatesParse(a, b) /\ DateGap(a, b) \div 2 > 90

IsSports(m) == CategoryOf(m) \in {Some("nba"), Some("nfl"), Some("soccer"), Some("mlb")}

SportsGateRejects(a, b) == IsSports(a) /\ SharedTeams(a, b) = {}

\* the confidence of the confidence rule, in tenths
RuleConfidence(a, b) ==
    LET sum == 2 * Cardinality(SharedEntities(a, b))
                + (IF YearsIntersect(a, b) THEN 3 ELSE 0)
                + (IF IsSports(a) THEN 3 * Cardinality(SharedTeams(a, b)) ELSE 0)
    IN  IF sum > 10 THEN 10 ELSE sum

\* a pair that all the gates but the year gate let through
PassesOtherGates(a, b) ==
    /\ SameCategory(a, b)
    /\ Cardinality(SharedEntities(a, b)) >= 2
    /\ ~DateGateRejects(a, b)
    /\ ~SportsGateRejects(a, b)
    /\ RuleConfidence(a, b) >= 5

(* C13: two markets whose year sets are both non-empty and disjoint are never
   matched, whatever else they agree on; when one of them has no year the
   year gate rejects nothing: the pair is matched if the other gates and the
   confidence let it through. *)
C13_YearGate ==
    AfterMatchAll =>
        \A ij \in VenuePairs :
            LET a == markets[ij[1]]
                b == markets[ij[2]]
            IN  /\ YearsDisjoint(a, b) => ~Matched(a, b)
                /\ ( (years_of(a) = {} \/ years_of(b) = {}) /\ PassesOtherGates(a, b) )
                        => Matched(a, b)

\* 2024 against 2026: a pair that every other gate lets through, not matched
C13_Witness ==
    /\ AfterMatchAll
    /\ \E ij \in VenuePairs :
        /\ YearsDisjoint(markets[ij[1]], markets[ij[2]])
        /\ PassesOtherGates(markets[ij[1]], markets[ij[2]])
        /\ ~Matched(markets[ij[1]], markets[ij[2]])


\* the pairs of markets a record of the output can come from
SourcesOf(k) ==
    {ij \in VenuePairs : k \in MatchesOf(markets[ij[1]], markets[ij[2]])}

(* C14: every CrossMatch of a sports category (nba, nfl, soccer, mlb) comes
   from two markets that each name a team and that name a common team. *)
C14_SportsGate ==
    AfterMatchAll =>
        \A k \in 1..Len(cross_matches) :
            cross_matches[k].category \in {"nba", "nfl", "soccer", "mlb"} =>
                /\ SourcesOf(k) # {}
                /\ \A ij \in SourcesOf(k) :
                    /\ process(markets[ij[1]]).teams # {}
                    /\ process(markets[ij[2]]).teams # {}
                    /\ SharedTeams(markets[ij[1]], markets[ij[2]]) # {}

\* an nba match of two markets that both name the Lakers
C14_Witness ==
    /\ AfterMatchAll
    /\ \E k \in 1..Len(cross_matches) :
        /\ cross_matches[k].category = "nba"
        /\ \E ij \in SourcesOf(k) : "lakers" \in SharedTeams(markets[ij[1]], markets[ij[2]])


\* the longest gap of two close dates the gate is to let through, in half days
MaxGap == MAX_GAP_DAYS * HalfDays

(* C15: whenever the two markets of a CrossMatch both have a close date that
   parses, the dates are at most 90 days apart, a fraction of a day counted;
   a missing or unparseable date on either side rejects nothing. *)
C15_CloseDateGate ==
    AfterMatchAll =>
        /\ \A k \in 1..Len(cross_matches) : \A ij \in SourcesOf(k) :
                BothDatesParse(markets[ij[1]], markets[ij[2]])
                    => DateGap(markets[ij[1]], markets[ij[2]]) <= MaxGap
        /\ \A ij \in VenuePairs :
                LET a == markets[ij[1]]
                    b == markets[ij[2]]
                IN  ( /\ ~BothDatesParse(a, b)
                      /\ SameCategory(a, b)
                      /\ Cardinality(SharedEntities(a, b)) >= 2
                      /\ ~YearsDisjoint(a, b)
                      /\ ~SportsGateRejects(a, b)
                      /\ RuleConfidence(a, b) >= 5 ) => Matched(a, b)

\* the second half of C15 alone: a missing or unparseable date rejects nothing
C15_MissingDateNeverRejects ==
    AfterMatchAll =>
        \A ij \in VenuePairs :
            LET a == markets[ij[1]]
                b == markets[ij[2]]
            IN  ( /\ ~BothDatesParse(a, b)
                  /\ SameCategory(a, b)
                  /\ Cardinality(SharedEntities(a, b)) >= 2
                  /\ ~YearsDisjoint(a, b)
                  /\ ~SportsGateRejects(a, b)
                  /\ RuleConfidence(a, b) >= 5 ) => Matched(a, b)

\* the gate as the matcher applies it: whole days, the fraction dropped
C15_WholeDayGate ==
    AfterMatchAll =>
        \A k \in 1..Len(cross_matches) : \A ij \in SourcesOf(k) :
            BothDatesParse(markets[ij[1]], markets[ij[2]])
                => DateGap(markets[ij[1]], markets[ij[2]]) \div HalfDays <= MAX_GAP_DAYS


\* a pair the entity, year, date and sports gates let through
Candidate(a, b) ==
    /\ SameCategory(a, b)
    /\ Cardinality(SharedEntities(a, b)) >= 2
    /\ ~YearsDisjoint(a, b)
    /\ ~DateGateRejects(a, b)
    /\ ~SportsGateRejects(a, b)

(* C16: every CrossMatch has at least two shared entities and the confidence
   min(1.0, 0.2 per shared entity + 0.3 when both year sets are non-empty and
   intersect + 0.3 per shared team in a sports category); a pair that the
   entity, year, date and sports gates let through is output exactly when
   this confidence is at least 0.5. *)
C16_ConfidenceRule ==
    AfterMatchAll =>
        /\ \A k \in 1..Len(cross_matches) :
            /\ Cardinality(cross_matches[k].shared_entities) >= 2
            /\ \E ij \in SourcesOf(k) :
                /\ cross_matches[k].shared_entities = SharedEntities(markets[ij[1]], markets[ij[2]])
                /\ cross_matches[k].confidence = RuleConfidence(markets[ij[1]], markets[ij[2]])
        /\ \A ij \in VenuePairs :
            Candidate(markets[ij[1]], markets[ij[2]])
                => (Matched(markets[ij[1]], markets[ij[2]])
                        <=> RuleConfidence(markets[ij[1]], markets[ij[2]]) >= 5)

\* a candidate pair left out for a confidence of 0.4
C16_WitnessBelow ==
    /\ AfterMatchAll
    /\ \E ij \in VenuePairs :
        /\ Candidate(markets[ij[1]], markets[ij[2]])
        /\ RuleConfidence(markets[ij[1]], markets[ij[2]]) = 4
        /\ ~Matched(markets[ij[1]], markets[ij[2]])

\* a match whose confidence has the bonus of two shared teams
C16_Witness ==
    /\ AfterMatchAll
    /\ \E k \in 1..Len(cross_matches) : \E ij \in SourcesOf(k) :
        /\ Cardinality(SharedTeams(markets[ij[1]], markets[ij[2]])) = 2
        /\ cross_matches[k].confidence = 10


\* the categories in the order the claim fixes
CategoryOrder ==
    <<"us_politics", "crypto", "economics", "nba", "nfl", "soccer", "mlb", "ai_tech">>

\* the keywords of the category of a name
KeywordsOf(name) ==
    Range((CHOOSE c \in Range(categories) : c[1] = name)[2])

\* the positions in CategoryOrder of the categories with at least two
\* distinct keywords in the text of m
Hits(m) ==
    {c \in 1..Len(CategoryOrder) :
        Cardinality({kw \in KeywordsOf(CategoryOrder[c]) : contains(process(m).text, kw)}) >= 2}

\* the first of them, if any
FirstHit(m) ==
    IF Hits(m) = {} THEN None
    ELSE Some(CategoryOrder[CHOOSE c \in Hits(m) : \A d \in Hits(m) : c <= d])

(* C17: a market is classified to the first category, in the order
   us_politics, crypto, economics, nba, nfl, soccer, mlb, ai_tech, that has at
   least two distinct keywords in the text, or to none; the two markets of a
   CrossMatch classify to the same category, which is the category of the
   record, and a market without a category is in no CrossMatch. *)
C17_CategoryBucketing ==
    /\ \A i \in 1..Len(markets) : CategoryOf(markets[i]) = FirstHit(markets[i])
    /\ AfterMatchAll =>
        /\ \A k \in 1..Len(cross_matches) :
            /\ SourcesOf(k) # {}
            /\ \A ij \in SourcesOf(k) :
                /\ SameCategory(markets[ij[1]], markets[ij[2]])
                /\ CategoryOf(markets[ij[1]]) = Some(cross_matches[k].category)
        /\ \A ij \in VenuePairs :
            (CategoryOf(markets[ij[1]]) = None \/ CategoryOf(markets[ij[2]]) = None)
                => ~Matched(markets[ij[1]], markets[ij[2]])

\* a match in us_politics of a market that has two keywords of crypto as well
C17_Witness ==
    /\ AfterMatchAll
    /\ \E k \in 1..Len(cross_matches) : \E ij \in SourcesOf(k) :
        /\ cross_matches[k].category = "us_politics"
        /\ Cardinality(Hits(markets[ij[1]])) >= 2

\* two markets without a category that share two entities, not matched
C17_WitnessNoCategory ==
    /\ AfterMatchAll
    /\ \E ij \in VenuePairs :
        /\ CategoryOf(markets[ij[1]]) = None
        /\ CategoryOf(markets[ij[2]]) = None
        /\ Cardinality(SharedEntities(markets[ij[1]], markets[ij[2]])) >= 2
        /\ ~Matched(markets[ij[1]], markets[ij[2]])


\* (net_profit / cost * 0.95 - 0.05) * 0.25 * total_capital
QuarterKelly(net_profit, cost, total_capital) ==
    RatMulInt(Rat(19 * net_profit - cost, 80 * cost), total_capital)

Clamp(x, lo, hi) == IF RatGe(lo, x) THEN lo ELSE IF RatGe(x, hi) THEN hi ELSE x

AfterSize == pc = "sized"

(* C18: for net_profit, cost > 0 and total_capital >= 0 the position is
   (net_profit / cost * 0.95 - 0.05) * 0.25 * total_capital clamped to
   [0, 0.1 * total_capital]; it is 0 whenever net_profit / cost * 0.95 - 0.05
   is not positive; the suggested_position of every Opportunity lies in
   [0, 0.1 * total_capital]. *)
C18_PositionSize ==
    /\ AfterSize =>
        /\ locals.position = Clamp(QuarterKelly(locals.net_profit, locals.cost, engine.total_capital),
                                   Rat(0, 1), Rat(engine.total_capital, 10))
        /\ 19 * locals.net_profit <= locals.cost => locals.position = Rat(0, 1)
    /\ \A k \in 1..Len(opportunities) :
        /\ RatGe(opportunities[k].suggested_position, Rat(0, 1))
        /\ RatGe(Rat(engine.total_capital, 10), opportunities[k].suggested_position)

\* a call the cap cuts down, after a scan that has sized an opportunity
C18_Witness ==
    /\ AfterSize
    /\ engine.total_capital > 0
    /\ locals.position = Rat(engine.total_capital, 10)
    /\ ~RatGe(Rat(engine.total_capital, 10),
              QuarterKelly(locals.net_profit, locals.cost, engine.total_capital))
    /\ opportunities # <<>>

\* a call at the edge where the Kelly fraction is 0
C18_WitnessZero ==
    /\ AfterSize
    /\ engine.total_capital > 0
    /\ 19 * locals.net_profit = locals.cost
    /\ locals.position = Rat(0, 1)

\* a call whose position lies strictly between the bounds
C18_WitnessInside ==
    /\ AfterSize
    /\ locals.position.n > 0
    /\ ~RatGe(locals.position, Rat(engine.total_capital, 10))


(* C19: match_all returns a result for every list of markets, a market with
   a long question that has multi-byte characters among them: the scan never
   aborts. *)
C19_Total == pc # "panic"


\* what a scan gives when its items are handled one after the other
Sequential(job) ==
    CASE job = "single" -> single_opps(engine, markets)
      [] job = "tokens_poly" ->
            LET polymarket == select_platform(markets, "Polymarket")
            IN  [i \in 1..Len(polymarket) |->
                    [market |-> polymarket[i], text |-> lower_text(polymarket[i]),
                     words |-> words(polymarket[i])]]
      [] job = "tokens_kalshi" ->
            LET kalshi == select_platform(markets, "Kalshi")
            IN  [i \in 1..Len(kalshi) |->
                    [market |-> kalshi[i], text |-> lower_text(kalshi[i]),
                     words |-> words(kalshi[i])]]
      [] job = "pairs" -> check_cross_platform(engine, markets)

\* every worker of the running scan is through its chunk
AllDone ==
    /\ locals.job # ""
    /\ \A w \in 1..Len(locals.chunks) : locals.next[w] > Len(locals.chunks[w])

\* the merged results are those of the sequential scan, at the merge and
\* in what the caller keeps of them
MergedIsSequential ==
    /\ AllDone => Range(collect(locals.results)) = Range(Sequential(locals.job))
    /\ (locals.job = "" /\ pc \in {"tokens_poly", "tokens_kalshi", "pairs"})
            => Range(opportunities) = Range(Sequential("single"))
    /\ (locals.job = "" /\ pc \in {"tokens_kalshi", "pairs"})
            => Range(locals.poly_data) = Range(Sequential("tokens_poly"))
    /\ (locals.job = "" /\ pc = "pairs")
            => Range(locals.kalshi_data) = Range(Sequential("tokens_kalshi"))
    /\ (locals.job = "" /\ pc = "comb")
            => Range(opportunities) = Range(Sequential("single") \o Sequential("pairs"))

\* a step between the split and the merge writes the list and the position
\* of one worker and nothing else
WorkerWritesOwn ==
    (locals.job # "" /\ locals'.job # "") =>
        /\ UNCHANGED <<pc, config, engine, markets, opportunities, cross_matches, sent_ids, telegram>>
        /\ locals'.job = locals.job
        /\ locals'.chunks = locals.chunks
        /\ locals'.poly_data = locals.poly_data
        /\ locals'.kalshi_data = locals.kalshi_data
        /\ \E w \in 1..Len(locals.chunks) :
            \A v \in 1..Len(locals.chunks) :
                v # w => /\ locals'.results[v] = locals.results[v]
                         /\ locals'.next[v] = locals.next[v]

(* C20: for the single-venue scan, the token preprocessing and the
   Polymarket x Kalshi comparison, the records merged from the workers are the
   same set for every split of the items over the workers and every
   interleaving of the workers, and are those of handling the items one after
   the other; until the merge a worker writes its own list only and the
   snapshot is only read. *)
C20_FanOutFanIn == []MergedIsSequential /\ [][WorkerWritesOwn]_vars

\* two workers of the pair comparison, each through its chunk with an
\* opportunity in its list
C20_Witness ==
    /\ AllDone
    /\ locals.job = "pairs"
    /\ Len(locals.chunks) = 2
    /\ locals.results[1] # <<>>
    /\ locals.results[2] # <<>>

\* the dependency lists the builder can return for the fetched markets, one
\* for each order in which the subject groups can be walked
DependencyLists == {detect_dependencies(markets, order) : order \in subject_orders(markets)}

\* the direct scan: some pattern has its first phrase in the text of market i
\* and its second phrase in the text of market j
PatternRelates(i, j) ==
    \E p \in 1..Len(IMPLICATION_PATTERNS) :
        /\ contains(lower_text(markets[i]), IMPLICATION_PATTERNS[p][1])
        /\ contains(lower_text(markets[j]), IMPLICATION_PATTERNS[p][2])

ImpliesPairs(deps) ==
    {<<deps[d].implying_market, deps[d].implied_market>> :
        d \in {d \in 1..Len(deps) : deps[d].dependency_type = "implies"}}

(* C21: the dependency builder returns no dependency of a market on itself,
   every index it returns is an index of the input, and it returns an
   'implies' dependency (i, j), i # j, exactly when some implication pattern
   (phrase_a, phrase_b) has phrase_a in the lower-cased text of market i and
   phrase_b in that of market j: the per-pattern index lists give the pairs of
   the direct scan. *)
C21_DependencyBuilder ==
    AfterComb =>
        \A deps \in DependencyLists :
            /\ \A d \in 1..Len(deps) :
                /\ deps[d].implying_market # deps[d].implied_market
                /\ deps[d].implying_market \in 1..Len(markets)
                /\ deps[d].implied_market \in 1..Len(markets)
            /\ \A i, j \in 1..Len(markets) :
                i # j => (<<i, j>> \in ImpliesPairs(deps) <=> PatternRelates(i, j))

\* a market whose text holds both phrases of a pattern, beside a market it
\* implies and a market no pattern relates it to
C21_Witness ==
    /\ AfterComb
    /\ \E i \in 1..Len(markets) : PatternRelates(i, i)
    /\ \E deps \in DependencyLists : ImpliesPairs(deps) # {}
    /\ \E i, j \in 1..Len(markets) : i # j /\ ~PatternRelates(i, j)

SubsetPairs(deps) ==
    {<<deps[d].implying_market, deps[d].implied_market>> :
        d \in {d \in 1..Len(deps) : deps[d].dependency_type = "subset"}}

\* the two markets share a subject keyword
ShareSubject(i, j) ==
    \E k \in 1..Len(subjects) :
        /\ contains(lower_text(markets[i]), subjects[k])
        /\ contains(lower_text(markets[j]), subjects[k])

\* some (specific, general) pair has the specific phrase in the text of i and
\* the general phrase, without the specific one, in the text of j
IndicatorRelates(i, j) ==
    \E k \in 1..Len(subset_indicators) :
        /\ contains(lower_text(markets[i]), subset_indicators[k][1])
        /\ contains(lower_text(markets[j]), subset_indicators[k][2])
        /\ ~contains(lower_text(markets[j]), subset_indicators[k][1])

\* a 'subset' dependency is only built between two markets that share a
\* subject keyword and that a (specific, general) pair relates
C22_SubsetSound ==
    AfterComb =>
        \A deps \in DependencyLists :
            \A ij \in SubsetPairs(deps) :
                ShareSubject(ij[1], ij[2]) /\ IndicatorRelates(ij[1], ij[2])

(* C22: a 'subset' dependency (i, j) is built only when markets i and j share
   a subject keyword and some (specific, general) pair has the specific phrase
   in the text of i and the general phrase, without the specific one, in the
   text of j; and for no two markets are both (i, j) and (j, i) built as
   'subset' dependencies. *)
C22_SubsetOneDirectional ==
    AfterComb =>
        \A deps \in DependencyLists :
            /\ \A ij \in SubsetPairs(deps) :
                ShareSubject(ij[1], ij[2]) /\ IndicatorRelates(ij[1], ij[2])
            /\ \A i, j \in 1..Len(markets) :
                ~(<<i, j>> \in SubsetPairs(deps) /\ <<j, i>> \in SubsetPairs(deps))

\* a 'subset' dependency built in one direction only
C22_WitnessOneWay ==
    /\ AfterComb
    /\ \E deps \in DependencyLists :
        \E ij \in SubsetPairs(deps) : <<ij[2], ij[1]>> \notin SubsetPairs(deps)

(* C24: within one result of analyze_markets no two Opportunity records share
   the same id: a market gives at most one 'single_' and one 'multi_' record,
   a Polymarket/Kalshi pair at most one 'cross_' record and an ordered
   (implying, implied) pair at most one 'comb_' record, also when the pair
   qualifies under several implication patterns, under both the implies and
   the subset table, or in several subject groups. *)
C24_UniqueIds ==
    pc = "done" =>
        \A k, l \in 1..Len(opportunities) :
            k # l => opportunities[k].id # opportunities[l].id

\* the records of the other three detectors have ids of their own
C24_UniqueOutsideComb ==
    pc = "done" =>
        \A k, l \in 1..Len(opportunities) :
            (k # l /\ opportunities[k].opp_type # "Combinatorial")
                => opportunities[k].id # opportunities[l].id

\* the builder relates the two markets in both directions
BothDirections(deps, i, j) ==
    /\ \E d \in 1..Len(deps) : deps[d].implying_market = i /\ deps[d].implied_market = j
    /\ \E d \in 1..Len(deps) : deps[d].implying_market = j /\ deps[d].implied_market = i

(* C30: for any two markets i and j the result holds a Combinatorial
   opportunity for at most one of the directions (i implying j) and
   (j implying i), also when the dependency builder returned dependencies in
   both directions. *)
C30_OneDirectionEmitted ==
    AfterComb =>
        \A i, j \in 1..Len(markets) :
            i # j =>
                ~( /\ OppsOf("Combinatorial", markets[i].id, markets[j].id) # {}
                   /\ OppsOf("Combinatorial", markets[j].id, markets[i].id) # {} )

\* dependencies in both directions between two markets, and a Combinatorial
\* opportunity for one of them
C30_Witness ==
    /\ AfterComb
    /\ \E i, j \in 1..Len(markets) :
        /\ i # j
        /\ \E deps \in DependencyLists : BothDirections(deps, i, j)
        /\ OppsOf("Combinatorial", markets[i].id, markets[j].id) # {}

-----------------------------------------------------------------------------
(* the dedup cache and the notifier *)

\* the times the notifier was called for a key since the last clear
Attempts(key) ==
    CopiesIn(<<"send_opportunity", key>>, telegram.attempts)
        + CopiesIn(<<"send_cross_match", key>>, telegram.attempts)
AttemptsAfter(key) ==
    CopiesIn(<<"send_opportunity", key>>, telegram'.attempts)
        + CopiesIn(<<"send_cross_match", key>>, telegram'.attempts)
KeysSent == {call[2] : call \in BagToSet(telegram.attempts)}

\* the step empties the cache at the start of a cycle
IsHourlyClear == pc = "start" /\ pc' = "config" /\ sent_ids' = {} /\ telegram' = NoTelegram

\* no key was sent more than once since the last clear, and the keys sent are
\* those of the cache
AtMostOnce ==
    /\ \A key \in KeysSent : Attempts(key) <= 1
    /\ KeysSent = sent_ids

\* a step sends nothing for a key of the cache
CachedIsSkipped == IsHourlyClear \/ \A key \in sent_ids : AttemptsAfter(key) = Attempts(key)

\* a step that takes a key out of the cache is the clear at the start of a
\* cycle
OnlyClearEmpties == (sent_ids \subseteq sent_ids') \/ IsHourlyClear

(* C23: over the scan cycles between two clears of the cache a notification
   is attempted at most once for each Opportunity id and for each cross-match
   key; an id of the cache is passed over without a send; and the cache is
   emptied only by the hourly clear at the start of a cycle. *)
C23_DedupCache == []AtMostOnce /\ [][CachedIsSkipped /\ OnlyClearEmpties]_vars

\* a later cycle finds the same opportunity again and passes it over
C23_Witness ==
    /\ pc = "match"
    /\ opportunities # <<>>
    /\ locals.new_opps = 0
    /\ \A k \in 1..Len(opportunities) :
        CopiesIn(<<"send_opportunity", opportunities[k].id>>, telegram.attempts) = 1

\* the same for a cross match
C23_WitnessCrossMatch ==
    /\ pc = "summary"
    /\ cross_matches # <<>>
    /\ locals.new_cross = 0
    /\ locals.new_opps = 0
    /\ \A k \in 1..Len(cross_matches) :
        CopiesIn(<<"send_cross_match", cross_key(cross_matches[k])>>, telegram.attempts) = 1

\* the notifier was called with send_cross_match for the match since the last
\* clear
SentAsCrossMatch(cm) == CopiesIn(<<"send_cross_match", cross_key(cm)>>, telegram.attempts) >= 1

(* C25: the keys of the two kinds of result do not interfere in the cache:
   once the loop over the cross matches of a cycle is through, every cross
   match of the cycle has been sent as a cross match, in this cycle or, its key
   being in the cache from then, in an earlier one since the last clear; the
   alert of a Cross-Platform opportunity for the same two markets earlier in
   the cycle does not make the loop pass the cross match over. *)
C25_KindsDoNotInterfere ==
    pc = "summary" => \A k \in 1..Len(cross_matches) : SentAsCrossMatch(cross_matches[k])

\* a cross match sent although the cycle alerted an opportunity before it
C25_WitnessSent ==
    /\ pc = "summary"
    /\ locals.new_opps > 0
    /\ \E k \in 1..Len(cross_matches) :
        /\ SentAsCrossMatch(cross_matches[k])
        /\ \E o \in 1..Len(opportunities) :
            /\ opportunities[o].opp_type = "Cross-Platform"
            /\ {opportunities[o].market_a, opportunities[o].market_b}
                = {cross_matches[k].id_a, cross_matches[k].id_b}

\* the keys of the list an alert loop is about to walk
KeysToAlert ==
    IF pc = "alert_opps" THEN {opportunities[k].id : k \in 1..Len(opportunities)}
    ELSE IF pc = "alert" THEN {cross_key(cross_matches[k]) : k \in 1..Len(cross_matches)}
    ELSE {}

\* a key whose send failed is in the cache and was sent once
FailedStaysCached ==
    \A call \in telegram.failed : call[2] \in sent_ids /\ Attempts(call[2]) = 1

\* an alert loop handles every item of its list, whatever the sends before it
\* did: each key the cache did not hold is in it afterwards and was sent once
\* by this step, and each key it held is left alone
LoopHandlesEveryItem ==
    \A key \in KeysToAlert :
        /\ key \in sent_ids'
        /\ AttemptsAfter(key) = IF key \in sent_ids THEN Attempts(key) ELSE 1

\* no step but the clear sends for a key of the cache or takes it out
FailedIsNotRetried ==
    \A key \in sent_ids :
        (key \in sent_ids' /\ AttemptsAfter(key) = Attempts(key)) \/ IsHourlyClear

(* C26: when the send of the notification for an opportunity or a cross match
   fails, the loop goes on with the remaining items, the key stays in the
   cache, and the notification is not attempted again in later cycles until the
   cache is cleared: the key is put into the cache before the send, whether or
   not the send succeeds. *)
C26_FailedSend == []FailedStaysCached /\ [][LoopHandlesEveryItem /\ FailedIsNotRetried]_vars

\* the send for the first of two new opportunities failed and the second was
\* sent
C26_Witness ==
    /\ pc = "match"
    /\ locals.new_opps = 2
    /\ Len(opportunities) = 2
    /\ <<"send_opportunity", opportunities[1].id>> \in telegram.failed
    /\ <<"send_opportunity", opportunities[2].id>> \notin telegram.failed
    /\ CopiesIn(<<"send_opportunity", opportunities[2].id>>, telegram.attempts) = 1

\* the part of a cycle that fetches, analyzes and sends
Scanning == pc \in {"fetch", "analyze", "alert_opps", "match", "alert", "summary"}

\* a cycle scans only under a configuration, loaded in this cycle, that has
\* notifications enabled
ScansOnlyWhenEnabled == Scanning => config.notifications_enabled

\* the step loads a configuration with notifications disabled
LoadsPaused == pc = "config" /\ ~config'.notifications_enabled

\* the step loads a configuration with notifications enabled
LoadsEnabled == pc = "config" /\ config'.notifications_enabled

\* a paused cycle goes back to the start of the loop and leaves the markets,
\* the results, the cache and the notifier as they are; the first cycle that
\* loads an enabled configuration builds its engine and goes on to the fetch;
\* and no cycle reaches the fetch but from the load of the configuration
PausedCycleIsIdle ==
    /\ LoadsPaused =>
        /\ pc' = "start"
        /\ UNCHANGED <<markets, opportunities, cross_matches, sent_ids, telegram, locals>>
    /\ LoadsEnabled =>
        /\ pc' = "fetch"
        /\ engine' = ArbitrageEngine_new(Rat(config'.min_roi_percent, 100),
                                         config'.min_profit_threshold, Capital)
    /\ (pc' = "fetch" /\ pc # "fetch") => pc = "config"
    /\ (pc = "start" /\ pc' # "start") => pc' = "config"

(* C27: while notifications_enabled is false a scan cycle performs no fetch,
   no analysis and no send and adds nothing to the dedup cache, which changes
   only by the hourly clear; the loop reads the configuration again in every
   cycle and goes back to full scans in the first cycle in which
   notifications_enabled is true. *)
C27_PausedCycles == []ScansOnlyWhenEnabled /\ [][PausedCycleIsIdle]_vars

\* a cycle that was paused with keys in the cache
C27_Witness ==
    /\ pc = "start"
    /\ config = PausedConfig
    /\ sent_ids # {}

\* the cycle scans again under an enabled configuration, the keys of before
\* the pause in its cache
C27_WitnessResumed ==
    /\ pc = "fetch"
    /\ config = DefaultConfig
    /\ sent_ids # {}

-----------------------------------------------------------------------------
(* the fetches of a cycle *)

Venues == {"Polymarket", "Kalshi", "Manifold"}

AfterFetchAll == pc \in {"analyze", "alert_opps", "match", "alert", "summary"}

\* a request of the venue's fetch failed
RequestFailed(venue) ==
    \E n \in 1..Len(locals.fetches[venue].answers) : locals.fetches[venue].answers[n] = "err"

ReturnedErr(venue) == ~locals.fetches[venue].result[1].ok

\* the markets of the venues whose fetch returned Ok, in the order of main
MarketsOfVenue(venue) ==
    IF ReturnedErr(venue) THEN <<>> ELSE locals.fetches[venue].result[1].markets

MarketsFetched ==
    MarketsOfVenue("Polymarket") \o MarketsOfVenue("Kalshi") \o MarketsOfVenue("Manifold")

(* C28: if a page request of a venue's fetch fails, the fetch returns an
   error, none of the markets of the pages fetched before for that venue reach
   the engine in that cycle (the venue contributes an empty list), and the
   cycle still analyzes and matches the markets of the other venues. *)
C28_FetchFailureIsolated ==
    AfterFetchAll =>
        /\ \A venue \in Venues :
            /\ RequestFailed(venue) => ReturnedErr(venue)
            /\ ReturnedErr(venue) => select_platform(markets, venue) = <<>>
        /\ markets = MarketsFetched
        /\ pc \in {"alert_opps", "match", "alert", "summary"} =>
            \E order \in subject_orders(MarketsFetched) :
                opportunities = analyze_markets(engine, MarketsFetched, order)
        /\ pc \in {"alert", "summary"} =>
            \E platforms \in key_orders(platform_markets(MarketsFetched)) :
                cross_matches = match_all(platform_markets(MarketsFetched), platforms)

\* the second page of Polymarket failed after a first page with a market, and
\* the cycle has matched the markets of Kalshi and Manifold
C28_Witness ==
    /\ pc = "alert"
    /\ locals.fetches["Polymarket"].answers = <<"200", "err">>
    /\ locals.fetches["Polymarket"].all_markets # <<>>
    /\ select_platform(markets, "Polymarket") = <<>>
    /\ select_platform(markets, "Kalshi") # <<>>
    /\ cross_matches # <<>>

-----------------------------------------------------------------------------
(* the paginated fetch *)

Returned == pc = "returned"

\* the requests the call has issued
Requests == Len(locals.f.answers)

\* the answer to the n-th request lets the loop of the venue go on: a page
\* that is not empty for Polymarket, a page with a cursor for Kalshi
GoesOn(n) ==
    LET r == response(locals.server, n)
    IN  /\ r.status # "err"
        /\ IF locals.venue = "Polymarket" THEN r.items # <<>> ELSE r.cursor

\* at most max_pages requests, none when max_pages <= 0
WithinLimit == Requests <= Max(0, locals.max_pages)

\* no request is issued after an empty page (Polymarket) or an answer without
\* a cursor (Kalshi)
StopsEarly == \A n \in 1..(Requests - 1) : GoesOn(n)

(* C29: the fetch loops of Polymarket and Kalshi issue at most max_pages page
   requests per call, none when max_pages <= 0, and then return; the
   Polymarket loop stops earlier on the first empty page and the Kalshi loop on
   the first answer without a cursor, whatever pages the server returns. *)
C29_FetchTerminates == <>Returned /\ [](WithinLimit /\ StopsEarly)

\* a server that never ends, left after max_pages requests
C29_Witness ==
    /\ Returned
    /\ Requests = MaxPages
    /\ locals.max_pages = MaxPages
    /\ \A n \in 1..Requests : GoesOn(n)
    /\ locals.f.result[1].ok

\* a call that returns without a request
C29_WitnessNoRequest ==
    /\ Returned
    /\ locals.max_pages <= 0
    /\ Requests = 0

\* a call that stops before its limit
C29_WitnessEarly ==
    /\ Returned
    /\ Requests < locals.max_pages
    /\ locals.f.result[1].ok

=============================================================================
